---- MODULE Spec2Model ----
(***************************************************************************)
(* Model of the HarmoniousSafetyCoordinator of the Solidarity platform     *)
(* (src/harmoniousSafetyCoordinator.js), of its TransactionProcessor,      *)
(* BlockchainConnector and SmartContractManager (src/financial_systems)    *)
(* and of its RateLimitHelper (src/security/input-validator.js).  Each     *)
(* object has its own variables and its own specification.                 *)
(*                                                                         *)
(* Numbers.  A JavaScript number is modelled in fixed point: 1.0 is Scale  *)
(* units, so that the mean of up to six levels given in thousandths is an  *)
(* exact integer.  The three non-finite doubles are sentinels outside the  *)
(* finite range: PosInf and NegInf order as the largest and the smallest   *)
(* value, NaN is unordered and unequal to everything, itself included.     *)
(* Arithmetic on finite values is exact (binary rounding of the mean is    *)
(* not modelled).                                                          *)
(***************************************************************************)
EXTENDS Integers, Sequences, FiniteSets, TLC

VARIABLES
    componentLevels,   \* this.componentLevels: own key -> number
    currentFlowMode,   \* this.currentFlowMode
    ret,               \* the last call: operation, component argument, how it ended,
                       \* the assessment it returned, the number of levels aggregated
    calls,             \* number of calls made on the coordinator
    probe,             \* the level handed to assessSafetyLevel on its own
    classified,        \* the assessment assessSafetyLevel returned for probe
    frames,            \* per caller: the call it has made on the coordinator and how
                       \* far that call has run
    processor,         \* the TransactionProcessor: config, transactions (id -> record),
                       \* pendingTransactions, confirmedTransactions, failedTransactions
                       \* (sets of ids), queue, processing, metrics
    loop,              \* where the startProcessing loop of the processor is suspended
    cancelled,         \* ids for which cancelTransaction has returned success
    limiter,           \* the RateLimitHelper: requests (identifier -> count, resetTime),
                       \* with the clock and the options its caller passes
    answered,          \* the last answer of checkLimit, and per identifier the answers
                       \* with allowed = true given in its current window
    connector,         \* the BlockchainConnector: config, connected, pendingTransactions,
                       \* transactionHistory, metrics
    manager,           \* the SmartContractManager: config, contracts, deployments,
                       \* interactions
    inflight,          \* accepted requests of connector and manager waiting for a timer
    request,           \* the last request made of connector or manager and its outcome
    optimizer,         \* the FinancialOptimizer: config, batchQueue, batchProcessing,
                       \* batchSize, gasPriceHistory, optimizations
    batching,          \* the timers scheduleBatchProcessing has set and the
                       \* processBatch and processOperation calls that are suspended
    observed,          \* operations answered with queued: true, operations processed
    gas,               \* the last optimizeGas call and what it returned
    aiSafety,          \* the AISafetyCoordinator: currentSafetyLevel, systemMode,
                       \* emergencyProtocolsActive, quantumCoherence
    aiCall,            \* the last call made on the AISafetyCoordinator
    systemConfig,      \* the UnifiedSystemConfiguration: config.safety
    configCall,        \* the last call made on the UnifiedSystemConfiguration and
                       \* what it returned
    solidarity,        \* the CorrectedSolidaritySystem: status, quantumConfig,
                       \* coherenceSafetyStatus
    asked,             \* the last call made on the CorrectedSolidaritySystem and
                       \* what it returned
    sanitizer          \* a call of InputSanitizer.sanitizeNumber: input, options, result

processorVars == <<processor, loop, cancelled>>

limiterVars == <<limiter, answered>>

chainVars == <<connector, manager, inflight, request>>

optimizerVars == <<optimizer, batching, observed, gas>>

aiSafetyVars == <<aiSafety, aiCall>>

systemConfigVars == <<systemConfig, configCall>>

solidarityVars == <<solidarity, asked>>

serviceVars == <<optimizerVars, aiSafetyVars, systemConfigVars, solidarityVars, sanitizer>>

subsystemVars == <<processorVars, limiterVars, chainVars, serviceVars>>

coordinatorVars == <<componentLevels, currentFlowMode, ret, calls, probe, classified, frames>>

vars == <<componentLevels, currentFlowMode, ret, calls, probe, classified, frames,
          processor, loop, cancelled, limiter, answered,
          connector, manager, inflight, request,
          optimizer, batching, observed, gas, aiSafety, aiCall,
          systemConfig, configCall, solidarity, asked, sanitizer>>

(***************************************************************************)
(* Bounds of the model.                                                    *)
(***************************************************************************)
NumInputLevels == 3
MaxCalls == 3
GridPoints == 100
NumCallers == 2
MaxTransactions == 2
MaxRetryAttempts == 2
MaxConfirmations == 3
MaxRequests == 2
MaxWindowMs == 2
MaxTime == 4
MaxOperations == 3
MaxBatchSize == 2
MaxGwei == 4
MaxHistory == 2

(***************************************************************************)
(* Numbers.                                                                *)
(***************************************************************************)
Scale == 60 * 1000
Milli == Scale \div 1000
PosInf == 1000 * Scale
NegInf == 0 - PosInf
NaN == 2000 * Scale

IsNaN(x) == x = NaN

\* a >= b, a <= b, a !== b on doubles
Ge(a, b) == ~IsNaN(a) /\ ~IsNaN(b) /\ a >= b
Le(a, b) == ~IsNaN(a) /\ ~IsNaN(b) /\ a <= b
StrictNe(a, b) == IsNaN(a) \/ IsNaN(b) \/ a # b

\* Math.min / Math.max of two doubles
Min2(a, b) == IF IsNaN(a) \/ IsNaN(b) THEN NaN ELSE IF a < b THEN a ELSE b
Max2(a, b) == IF IsNaN(a) \/ IsNaN(b) THEN NaN ELSE IF a > b THEN a ELSE b

\* a + b for a, b finite or NaN
Add(a, b) == IF IsNaN(a) \/ IsNaN(b) THEN NaN ELSE a + b

\* a / n for a finite or NaN and n a length
Div(a, n) ==
    IF IsNaN(a) THEN NaN
    ELSE IF n = 0 THEN (IF a = 0 THEN NaN ELSE IF a > 0 THEN PosInf ELSE NegInf)
    ELSE a \div n

RECURSIVE MathMin(_)
MathMin(s) == IF s = <<>> THEN PosInf ELSE Min2(Head(s), MathMin(Tail(s)))

RECURSIVE MathMax(_)
MathMax(s) == IF s = <<>> THEN NegInf ELSE Max2(Head(s), MathMax(Tail(s)))

\* levels.reduce((sum, level) => sum + level, 0)
RECURSIVE ReduceSum(_, _)
ReduceSum(s, acc) == IF s = <<>> THEN acc ELSE ReduceSum(Tail(s), Add(acc, Head(s)))

(***************************************************************************)
(* Constructor data.                                                       *)
(***************************************************************************)
bridgingBaseline == 618 * Milli

\* the table with OPTIMAL_RANGE ending at 0.70: levels in (0.70, 0.75) match nothing
safetyThresholdsGap ==
    << [name |-> "CRITICAL_EMERGENCY", min |-> 0,           max |-> 50 * Milli,   priority |-> "MAXIMUM"],
       [name |-> "WARNING_LEVEL",      min |-> 50 * Milli,  max |-> 150 * Milli,  priority |-> "HIGH"],
       [name |-> "CAUTION_RANGE",      min |-> 150 * Milli, max |-> 250 * Milli,  priority |-> "MEDIUM"],
       [name |-> "OPTIMAL_RANGE",      min |-> 250 * Milli, max |-> 700 * Milli,  priority |-> "STANDARD"],
       [name |-> "UPPER_CAUTION",      min |-> 750 * Milli, max |-> 850 * Milli,  priority |-> "MEDIUM"],
       [name |-> "UPPER_WARNING",      min |-> 850 * Milli, max |-> 950 * Milli,  priority |-> "HIGH"],
       [name |-> "CRITICAL_UPPER",     min |-> 950 * Milli, max |-> 1000 * Milli, priority |-> "MAXIMUM"] >>

\* the table with WARNING_LEVEL reaching up to 0.25: it overlaps all of CAUTION_RANGE
safetyThresholdsOverlap ==
    << [name |-> "CRITICAL_EMERGENCY", min |-> 0,           max |-> 50 * Milli,   priority |-> "MAXIMUM"],
       [name |-> "WARNING_LEVEL",      min |-> 50 * Milli,  max |-> 250 * Milli,  priority |-> "HIGH"],
       [name |-> "CAUTION_RANGE",      min |-> 150 * Milli, max |-> 250 * Milli,  priority |-> "MEDIUM"],
       [name |-> "OPTIMAL_RANGE",      min |-> 250 * Milli, max |-> 750 * Milli,  priority |-> "STANDARD"],
       [name |-> "UPPER_CAUTION",      min |-> 750 * Milli, max |-> 850 * Milli,  priority |-> "MEDIUM"],
       [name |-> "UPPER_WARNING",      min |-> 850 * Milli, max |-> 950 * Milli,  priority |-> "HIGH"],
       [name |-> "CRITICAL_UPPER",     min |-> 950 * Milli, max |-> 1000 * Milli, priority |-> "MAXIMUM"] >>

\* the table with the priority of CRITICAL_UPPER copied from UPPER_WARNING
safetyThresholdsCriticalUpperHigh ==
    << [name |-> "CRITICAL_EMERGENCY", min |-> 0,           max |-> 50 * Milli,   priority |-> "MAXIMUM"],
       [name |-> "WARNING_LEVEL",      min |-> 50 * Milli,  max |-> 150 * Milli,  priority |-> "HIGH"],
       [name |-> "CAUTION_RANGE",      min |-> 150 * Milli, max |-> 250 * Milli,  priority |-> "MEDIUM"],
       [name |-> "OPTIMAL_RANGE",      min |-> 250 * Milli, max |-> 750 * Milli,  priority |-> "STANDARD"],
       [name |-> "UPPER_CAUTION",      min |-> 750 * Milli, max |-> 850 * Milli,  priority |-> "MEDIUM"],
       [name |-> "UPPER_WARNING",      min |-> 850 * Milli, max |-> 950 * Milli,  priority |-> "HIGH"],
       [name |-> "CRITICAL_UPPER",     min |-> 950 * Milli, max |-> 1000 * Milli, priority |-> "HIGH"] >>

safetyThresholds ==
    << [name |-> "CRITICAL_EMERGENCY", min |-> 0,           max |-> 50 * Milli,   priority |-> "MAXIMUM"],
       [name |-> "WARNING_LEVEL",      min |-> 50 * Milli,  max |-> 150 * Milli,  priority |-> "HIGH"],
       [name |-> "CAUTION_RANGE",      min |-> 150 * Milli, max |-> 250 * Milli,  priority |-> "MEDIUM"],
       [name |-> "OPTIMAL_RANGE",      min |-> 250 * Milli, max |-> 750 * Milli,  priority |-> "STANDARD"],
       [name |-> "UPPER_CAUTION",      min |-> 750 * Milli, max |-> 850 * Milli,  priority |-> "MEDIUM"],
       [name |-> "UPPER_WARNING",      min |-> 850 * Milli, max |-> 950 * Milli,  priority |-> "HIGH"],
       [name |-> "CRITICAL_UPPER",     min |-> 950 * Milli, max |-> 1000 * Milli, priority |-> "MAXIMUM"] >>

\* own keys of componentLevels in insertion order; "toString" can only be
\* inserted after the six keys of the constructor
KeyOrder == <<"quantum", "launcher", "solidarity", "ai", "colorMotion", "system", "toString">>

ConstructorKeys == {"quantum", "launcher", "solidarity", "ai", "colorMotion", "system"}

\* a name every object inherits from Object.prototype
InheritedKeys == {"toString"}

flowRules == {"conservative", "balanced", "performance"}

(***************************************************************************)
(* Inputs.                                                                 *)
(***************************************************************************)
CandidateLevels ==
    << NaN, 900 * Milli, 1500 * Milli, 30 * Milli, 0 - 500 * Milli, PosInf >>

InputLevels == { CandidateLevels[i] : i \in 1..NumInputLevels }

InputComponents == ConstructorKeys \cup InheritedKeys \cup {"financial"}

InputModes == flowRules \cup InheritedKeys \cup {"turbo"}

Reasons == {"Manual trigger", "Demo test"}

(***************************************************************************)
(* assessSafetyLevel: the first threshold, in table order, whose closed    *)
(* range holds the level; the fallback assessment when none does.          *)
(***************************************************************************)
\* the last matching threshold instead of the first
FirstThresholdLastMatch(level, i) ==
    LET matching == { j \in 1..Len(safetyThresholds) :
                         Ge(level, safetyThresholds[j].min) /\ Le(level, safetyThresholds[j].max) }
    IN  IF matching = {} THEN 0
        ELSE CHOOSE j \in matching : \A k \in matching : k <= j

\* the upper bound excluded: level < threshold.max
RECURSIVE FirstThresholdHalfOpen(_, _)
FirstThresholdHalfOpen(level, i) ==
    IF i > Len(safetyThresholds) THEN 0
    ELSE IF /\ Ge(level, safetyThresholds[i].min)
            /\ Le(level, safetyThresholds[i].max)
            /\ level # safetyThresholds[i].max
         THEN i
    ELSE FirstThresholdHalfOpen(level, i + 1)

RECURSIVE FirstThreshold(_, _)
FirstThreshold(level, i) ==
    IF i > Len(safetyThresholds) THEN 0
    ELSE IF Ge(level, safetyThresholds[i].min) /\ Le(level, safetyThresholds[i].max) THEN i
    ELSE FirstThreshold(level, i + 1)

\* the fallback replaced by a default bucket, as AISafetyCoordinator.assessSafety has it
assessSafetyLevelDefaultBucket(level) ==
    LET i == FirstThreshold(level, 1) IN
    IF i = 0
    THEN [level |-> "WARNING_LEVEL", priority |-> "HIGH", value |-> level]
    ELSE [level |-> safetyThresholds[i].name, priority |-> safetyThresholds[i].priority, value |-> level]

assessSafetyLevel(level) ==
    LET i == FirstThreshold(level, 1) IN
    IF i = 0
    THEN [level |-> "UNKNOWN", priority |-> "HIGH", value |-> level]
    ELSE [level |-> safetyThresholds[i].name, priority |-> safetyThresholds[i].priority, value |-> level]

NoAssessment == [level |-> "none", priority |-> "none", value |-> 0]

(***************************************************************************)
(* updateSystemSafety.  The levels aggregated are the VALUES of            *)
(* componentLevels that differ (!==) from the value held under "system".   *)
(***************************************************************************)
OwnKeys(cl) == SelectSeq(KeyOrder, LAMBDA k : k \in DOMAIN cl)

Levels(cl) ==
    LET kept == SelectSeq(OwnKeys(cl), LAMBDA k : StrictNe(cl[k], cl["system"]))
    IN  [i \in 1..Len(kept) |-> cl[kept[i]]]

NewSystemLevel(cl, mode) ==
    LET levels == Levels(cl) IN
    CASE mode = "conservative" -> MathMin(levels)
      [] mode = "balanced"     -> Div(ReduceSum(levels, 0), Len(levels))
      [] mode = "performance"  -> MathMax(levels)
      [] OTHER                 -> MathMin(levels)

updateSystemSafety(cl, mode) ==
    [cl EXCEPT !["system"] = NewSystemLevel(cl, mode)]

(***************************************************************************)
(* setComponentSafety as a function of the state it is called in: the      *)
(* component levels it leaves, how the call ended ("returned" an           *)
(* assessment, returned "false", or threw "TypeError"), the assessment     *)
(* returned, and the number of levels its updateSystemSafety aggregated    *)
(* (-1 when it did not get there).                                         *)
(***************************************************************************)
Clamp(level) == Max2(0, Min2(Scale, level))

\* setComponentSafety returning the assessment that updateSystemSafety returns
setComponentSafetyReturnsSystem(cl, mode, component, level) ==
    IF ~(component \in DOMAIN cl \/ component \in InheritedKeys)
    THEN [cl |-> cl, outcome |-> "false", assessment |-> NoAssessment, aggregated |-> 0 - 1]
    ELSE
      LET safeLevel == Clamp(level)
          oldIsNumber == component \in DOMAIN cl
          written == [k \in DOMAIN cl \cup {component} |->
                         IF k = component THEN safeLevel ELSE cl[k]]
      IN  IF ~oldIsNumber
          THEN [cl |-> written, outcome |-> "TypeError", assessment |-> NoAssessment,
                aggregated |-> 0 - 1]
          ELSE [cl |-> updateSystemSafety(written, mode), outcome |-> "returned",
                assessment |-> assessSafetyLevel(updateSystemSafety(written, mode)["system"]),
                aggregated |-> Len(Levels(written))]

setComponentSafety(cl, mode, component, level) ==
    IF ~(component \in DOMAIN cl \/ component \in InheritedKeys)
    THEN [cl |-> cl, outcome |-> "false", assessment |-> NoAssessment, aggregated |-> 0 - 1]
    ELSE
      LET safeLevel == Clamp(level)
          oldIsNumber == component \in DOMAIN cl
          written == [k \in DOMAIN cl \cup {component} |->
                         IF k = component THEN safeLevel ELSE cl[k]]
      IN  IF ~oldIsNumber
          THEN \* oldLevel is the inherited function: oldLevel.toFixed(3) throws
               [cl |-> written, outcome |-> "TypeError", assessment |-> NoAssessment,
                aggregated |-> 0 - 1]
          ELSE [cl |-> updateSystemSafety(written, mode), outcome |-> "returned",
                assessment |-> assessSafetyLevel(safeLevel),
                aggregated |-> Len(Levels(written))]

\* the loop of harmonizeAllComponents over the keys still to visit
RECURSIVE HarmonizeLoop(_, _, _, _)
HarmonizeLoop(r, mode, keys, targetLevel) ==
    IF keys = <<>> THEN r
    ELSE IF Head(keys) = "system" THEN HarmonizeLoop(r, mode, Tail(keys), targetLevel)
    ELSE HarmonizeLoop(setComponentSafety(r.cl, mode, Head(keys), targetLevel),
                       mode, Tail(keys), targetLevel)

\* the component levels after each write of the loop of harmonizeAllComponents
RECURSIVE HarmonizeTrace(_, _, _, _)
HarmonizeTrace(cl, mode, keys, targetLevel) ==
    IF keys = <<>> THEN <<>>
    ELSE IF Head(keys) = "system" THEN HarmonizeTrace(cl, mode, Tail(keys), targetLevel)
    ELSE LET next == setComponentSafety(cl, mode, Head(keys), targetLevel).cl
         IN  <<next>> \o HarmonizeTrace(next, mode, Tail(keys), targetLevel)

\* status.system of getSystemStatus
getSystemStatus(cl) == assessSafetyLevel(cl["system"])

(***************************************************************************)
(* The financial subsystems as their constructors leave them               *)
(* (src/financial_systems/smart_contract_manager.js).                      *)
(***************************************************************************)
\* TransactionProcessor: the config the constructor builds when it is given none
DefaultProcessorConfig == [testMode |-> TRUE, requiredConfirmations |-> 3, retryAttempts |-> 3]

NewTransactionProcessor(config) ==
    [config |-> config,
     transactions |-> <<>>,
     pendingTransactions |-> {},
     confirmedTransactions |-> {},
     failedTransactions |-> {},
     queue |-> <<>>,
     processing |-> FALSE,
     metrics |-> [totalProcessed |-> 0, successful |-> 0, failed |-> 0, pending |-> 0]]

\* no startProcessing loop is running
NoLoop == [pc |-> "idle", txId |-> 0]

ProcessorAtRest(config) ==
    /\ processor = NewTransactionProcessor(config)
    /\ loop = NoLoop
    /\ cancelled = {}

\* RateLimitHelper (src/security/input-validator.js): an empty requests map;
\* options with maxRequests or windowMs 0 stand for options without them
Identifiers == {"alice", "bob"}

NoEntry == [count |-> 0, resetTime |-> 0 - 1]

NewRateLimitHelper(options) ==
    [requests |-> [identifier \in Identifiers |-> NoEntry], now |-> 0, options |-> options]

NoAnswers ==
    [last |-> [identifier |-> "none", allowed |-> FALSE, remaining |-> 0,
               resetTime |-> 0 - 1, count |-> 0],
     windowEnd |-> [identifier \in Identifiers |-> 0 - 1],
     granted |-> [identifier \in Identifiers |-> 0]]

LimiterAtRest(options) ==
    /\ limiter = NewRateLimitHelper(options)
    /\ answered = NoAnswers

\* BlockchainConnector (src/financial_systems/blockchain_connector.js) and
\* SmartContractManager
NewBlockchainConnector(testMode) ==
    [config |-> [testMode |-> testMode],
     connected |-> FALSE,
     pendingTransactions |-> {},
     transactionHistory |-> <<>>,
     metrics |-> [totalTransactions |-> 0, successfulTransactions |-> 0,
                  failedTransactions |-> 0]]

NewSmartContractManager(testMode) ==
    [config |-> [testMode |-> testMode],
     contracts |-> {},
     deployments |-> <<>>,
     interactions |-> <<>>]

NoRequest == [op |-> "none", network |-> "none", outcome |-> "none", made |-> 0]

ChainAtRest(connectorTestMode, managerTestMode) ==
    /\ connector = NewBlockchainConnector(connectorTestMode)
    /\ manager = NewSmartContractManager(managerTestMode)
    /\ inflight = {}
    /\ request = NoRequest

FinancialAtRest ==
    /\ ProcessorAtRest(DefaultProcessorConfig)
    /\ LimiterAtRest([maxRequests |-> 0, windowMs |-> 0])
    /\ ChainAtRest(TRUE, TRUE)

(***************************************************************************)
(* The other objects as their constructors leave them.                     *)
(***************************************************************************)
\* FinancialOptimizer (src/financial_systems/financial_optimizer.js): a config
\* field that is 0 stands for a field that is missing; maxGasPrice and
\* batchSize then get the defaults of the constructor
defaultMaxGasPrice == 100 * Scale

defaultBatchSize == 10

NewFinancialOptimizer(config) ==
    [config |-> [batchingEnabled |-> config.batchingEnabled,
                 gasOptimizationEnabled |-> config.gasOptimizationEnabled,
                 maxGasPrice |-> IF config.maxGasPrice = 0 THEN defaultMaxGasPrice
                                 ELSE config.maxGasPrice],
     batchQueue |-> <<>>,
     batchProcessing |-> FALSE,
     batchSize |-> IF config.batchSize = 0 THEN defaultBatchSize ELSE config.batchSize,
     gasPriceHistory |-> <<>>,
     optimizations |-> [batchedOperations |-> 0, optimizedTransactions |-> 0]]

DefaultOptimizerConfig ==
    [batchingEnabled |-> TRUE, gasOptimizationEnabled |-> TRUE,
     maxGasPrice |-> 0, batchSize |-> 0]

NoBatching == [timers |-> 0, batches |-> {}, immediate |-> {}]

NoObservations == [added |-> 0, queued |-> {}, processed |-> {}]

NoGas ==
    [op |-> "none", currentGasPrice |-> 0, optimized |-> FALSE, gasPrice |-> 0, made |-> 0]

OptimizerAtRest(config) ==
    /\ optimizer = NewFinancialOptimizer(config)
    /\ batching = NoBatching
    /\ observed = NoObservations
    /\ gas = NoGas

\* AISafetyCoordinator (src/unnamed/part_003): config.initialSafetyLevel || 0.618;
\* riskMetrics is written by the methods below but never read by them
NewAISafetyCoordinator(initialSafetyLevel) ==
    [currentSafetyLevel |-> IF initialSafetyLevel = 0 \/ IsNaN(initialSafetyLevel)
                            THEN bridgingBaseline ELSE initialSafetyLevel,
     systemMode |-> "optimal",
     emergencyProtocolsActive |-> FALSE,
     quantumCoherence |-> bridgingBaseline]

NoAICall == [op |-> "none", level |-> 0, made |-> 0]

AISafetyAtRest(initialSafetyLevel) ==
    /\ aiSafety = NewAISafetyCoordinator(initialSafetyLevel)
    /\ aiCall = NoAICall

\* UnifiedSystemConfiguration (src/config/system_config.js): config.safety
ConfigComponents == {"quantum", "launcher", "solidarity", "ai", "financial"}

NewUnifiedSystemConfiguration ==
    [safety |-> [globalSafetyLevel |-> bridgingBaseline,
                 emergencyProtocols |-> TRUE,
                 componentSafety |-> [c \in ConfigComponents |-> bridgingBaseline]]]

NoConfigCall ==
    [op |-> "none", targetLevel |-> 0,
     oldLevels |-> [c \in ConfigComponents |-> 0], valid |-> TRUE, errors |-> {},
     made |-> 0]

SystemConfigAtRest ==
    /\ systemConfig = NewUnifiedSystemConfiguration
    /\ configCall = NoConfigCall

\* CorrectedSolidaritySystem (src/correctedSolidaritySystem.js): quantumConfig
\* has no emergencyMode and no maxAllowedComplexity; maxAllowedComplexity 0
\* stands for the missing property
NewCorrectedSolidaritySystem ==
    [status |-> [quantum_coherence |-> bridgingBaseline],
     quantumConfig |-> [emergencyMode |-> "undefined", maxAllowedComplexity |-> 0],
     coherenceSafetyStatus |-> [rawCoherence |-> 0, finalCoherence |-> 0,
                                safetyStatus |-> "undefined"]]

NoQuestion ==
    [op |-> "none", requested |-> 0, complexity |-> 0, wasEmergency |-> FALSE,
     success |-> FALSE, coherence |-> 0, made |-> 0]

SolidarityAtRest ==
    /\ solidarity = NewCorrectedSolidaritySystem
    /\ asked = NoQuestion

\* InputSanitizer (src/security/input-validator.js) has static methods only
NoSanitizing ==
    [called |-> FALSE,
     input |-> [type |-> "undefined", text |-> "", value |-> 0],
     options |-> [hasMin |-> FALSE, min |-> 0, hasMax |-> FALSE, max |-> 0,
                  integer |-> FALSE, defaultValue |-> 0],
     result |-> 0]

ServicesAtRest ==
    /\ OptimizerAtRest(DefaultOptimizerConfig)
    /\ AISafetyAtRest(0)
    /\ SystemConfigAtRest
    /\ SolidarityAtRest
    /\ sanitizer = NoSanitizing

SubsystemsInit ==
    /\ FinancialAtRest
    /\ ServicesAtRest

(***************************************************************************)
(* The coordinator.                                                        *)
(***************************************************************************)
Call ==
    /\ calls < MaxCalls
    /\ calls' = calls + 1
    /\ UNCHANGED <<probe, classified, frames>>
    /\ UNCHANGED subsystemVars

Callers == 1..NumCallers

IdleFrame ==
    [pc |-> "idle", op |-> "none", component |-> "none", targetLevel |-> 0,
     keys |-> <<>>, start |-> <<>>]

\* a constructor that starts in the balanced flow mode
CoordinatorInitBalanced ==
    /\ componentLevels = [k \in ConstructorKeys |-> bridgingBaseline]
    /\ currentFlowMode = "balanced"
    /\ ret = [op |-> "constructor", component |-> "none", outcome |-> "returned",
              assessment |-> NoAssessment, aggregated |-> 0 - 1]
    /\ calls = 0
    /\ frames = [c \in Callers |-> IdleFrame]

CoordinatorInit ==
    /\ componentLevels = [k \in ConstructorKeys |-> bridgingBaseline]
    /\ currentFlowMode = "conservative"
    /\ ret = [op |-> "constructor", component |-> "none", outcome |-> "returned",
              assessment |-> NoAssessment, aggregated |-> 0 - 1]
    /\ calls = 0
    /\ frames = [c \in Callers |-> IdleFrame]

Init ==
    /\ CoordinatorInit
    /\ probe = bridgingBaseline
    /\ classified = NoAssessment
    /\ SubsystemsInit

SetComponentSafety(component, level) ==
    LET r == setComponentSafety(componentLevels, currentFlowMode, component, level) IN
    /\ Call
    /\ componentLevels' = r.cl
    /\ UNCHANGED currentFlowMode
    /\ ret' = [op |-> "setComponentSafety", component |-> component, outcome |-> r.outcome,
               assessment |-> r.assessment, aggregated |-> r.aggregated]

SetFlowMode(mode) ==
    /\ Call
    /\ IF ~(mode \in flowRules \/ mode \in InheritedKeys)
       THEN /\ UNCHANGED <<componentLevels, currentFlowMode>>
            /\ ret' = [op |-> "setFlowMode", component |-> "none", outcome |-> "false",
                       assessment |-> NoAssessment, aggregated |-> 0 - 1]
       ELSE LET cl == updateSystemSafety(componentLevels, mode) IN
            /\ currentFlowMode' = mode
            /\ componentLevels' = cl
            /\ ret' = [op |-> "setFlowMode", component |-> "none", outcome |-> "returned",
                       assessment |-> assessSafetyLevel(cl["system"]),
                       aggregated |-> Len(Levels(componentLevels))]

HarmonizeAllComponents(targetLevel) ==
    LET r0 == [cl |-> componentLevels, outcome |-> "returned",
               assessment |-> NoAssessment, aggregated |-> 0 - 1]
        r  == HarmonizeLoop(r0, currentFlowMode, OwnKeys(componentLevels), targetLevel)
    IN  /\ Call
        /\ componentLevels' = r.cl
        /\ UNCHANGED currentFlowMode
        /\ ret' = [op |-> "harmonizeAllComponents", component |-> "none", outcome |-> "returned",
                   assessment |-> getSystemStatus(r.cl), aggregated |-> r.aggregated]

EmergencyStabilization(reason) ==
    LET written == [k \in DOMAIN componentLevels |->
                       IF k # "system" THEN bridgingBaseline ELSE componentLevels[k]]
        cl == updateSystemSafety(written, currentFlowMode)
    IN  /\ Call
        /\ componentLevels' = cl
        /\ UNCHANGED currentFlowMode
        /\ ret' = [op |-> "emergencyStabilization", component |-> "none", outcome |-> "returned",
                   assessment |-> getSystemStatus(cl), aggregated |-> Len(Levels(written))]

\* a status query that recalculates the system level before reporting it
GetSystemStatusRecalculating ==
    /\ Call
    /\ componentLevels' = updateSystemSafety(componentLevels, currentFlowMode)
    /\ UNCHANGED currentFlowMode
    /\ ret' = [op |-> "getSystemStatus", component |-> "none", outcome |-> "returned",
               assessment |-> getSystemStatus(componentLevels'), aggregated |-> 0 - 1]

GetSystemStatus ==
    /\ Call
    /\ UNCHANGED <<componentLevels, currentFlowMode>>
    /\ ret' = [op |-> "getSystemStatus", component |-> "none", outcome |-> "returned",
               assessment |-> getSystemStatus(componentLevels), aggregated |-> 0 - 1]

Next ==
    \/ \E component \in InputComponents, level \in InputLevels :
           SetComponentSafety(component, level)
    \/ \E mode \in InputModes : SetFlowMode(mode)
    \/ \E targetLevel \in InputLevels : HarmonizeAllComponents(targetLevel)
    \/ \E reason \in Reasons : EmergencyStabilization(reason)
    \/ GetSystemStatus

Spec == Init /\ [][Next]_vars

(***************************************************************************)
(* assessSafetyLevel on its own: a level is drawn from a grid over [0,1],  *)
(* the bounds of the table, and levels outside [0,1], and is classified.   *)
(***************************************************************************)
ProbeLevels ==
    { (i * Scale) \div GridPoints : i \in 0..GridPoints }
        \cup { safetyThresholds[i].min : i \in 1..Len(safetyThresholds) }
        \cup { safetyThresholds[i].max : i \in 1..Len(safetyThresholds) }
        \cup { NaN, PosInf, NegInf, 0 - 1, Scale + 1 }

ClassifyInit ==
    /\ CoordinatorInit
    /\ probe \in ProbeLevels
    /\ classified = NoAssessment
    /\ SubsystemsInit

AssessSafetyLevel ==
    /\ classified = NoAssessment
    /\ classified' = assessSafetyLevel(probe)
    /\ UNCHANGED <<componentLevels, currentFlowMode, ret, calls, probe, frames>>
    /\ UNCHANGED subsystemVars

ClassifyNext == AssessSafetyLevel

ClassifySpec == ClassifyInit /\ [][ClassifyNext]_vars

(***************************************************************************)
(* What the claims speak of.                                               *)
(***************************************************************************)
\* the levels of all registered components, in registration order
RegisteredLevels ==
    LET keys == SelectSeq(OwnKeys(componentLevels), LAMBDA k : k # "system")
    IN  [i \in 1..Len(keys) |-> componentLevels[keys[i]]]

\* minimum, arithmetic mean, maximum of all registered levels
AggregateOfAll(mode) ==
    CASE mode = "conservative" -> MathMin(RegisteredLevels)
      [] mode = "balanced"     -> Div(ReduceSum(RegisteredLevels, 0), Len(RegisteredLevels))
      [] mode = "performance"  -> MathMax(RegisteredLevels)

systemLevel == componentLevels["system"]

Mutations == {"setComponentSafety", "setFlowMode", "harmonizeAllComponents",
              "emergencyStabilization"}

InUnitInterval(x) == Ge(x, 0) /\ Le(x, Scale)

\* C1: after every completed coordinator operation the system level is the
\* minimum (conservative), mean (balanced) or maximum (performance) of all
\* registered component levels.
C1_SystemLevelIsAggregateOfAll ==
    (ret.op \in Mutations /\ ret.outcome = "returned" /\ currentFlowMode \in flowRules)
        => systemLevel = AggregateOfAll(currentFlowMode)

\* C2: the system level is a function of the component levels and the
\* strategy alone: a call that leaves both as they were leaves the system
\* level as it was.
C2_SystemLevelIsPureFunction ==
    [][ ( /\ \A k \in (DOMAIN componentLevels \cup DOMAIN componentLevels') \ {"system"} :
                /\ k \in DOMAIN componentLevels
                /\ k \in DOMAIN componentLevels'
                /\ componentLevels'[k] = componentLevels[k]
          /\ currentFlowMode' = currentFlowMode )
        => componentLevels'["system"] = componentLevels["system"] ]_vars

\* C3: every component level lies in [0,1] in every reachable state,
\* whichever value was written and whichever operation wrote it.
C3_ComponentLevelsInUnitInterval ==
    \A k \in DOMAIN componentLevels \ {"system"} : InUnitInterval(componentLevels[k])

\* C4: emergencyStabilization leaves every component at 0.618, the system
\* level at 0.618, the system bucket optimal and no emergency active.
C4_EmergencyStabilizeRestoresBaseline ==
    ret.op = "emergencyStabilization"
        => /\ ret.outcome = "returned"
           /\ \A k \in DOMAIN componentLevels \ {"system"} :
                  componentLevels[k] = bridgingBaseline
           /\ systemLevel = bridgingBaseline
           /\ ret.assessment.level = "OPTIMAL_RANGE"
           /\ ret.assessment.level \notin {"CRITICAL_EMERGENCY", "CRITICAL_UPPER"}

\* C5: emergencyStabilization is idempotent: a second call right after a
\* first leaves the state and the returned system assessment as the first did.
C5_EmergencyStabilizeIdempotent ==
    [][ (ret.op = "emergencyStabilization" /\ ret'.op = "emergencyStabilization")
        => /\ componentLevels' = componentLevels
           /\ currentFlowMode' = currentFlowMode
           /\ ret'.assessment = ret.assessment ]_vars

\* C6: right after setFlowMode(s) returns, the system level and its bucket
\* are the aggregate under s of the current component levels and its
\* classification.
C6_StrategySwitchImmediate ==
    (ret.op = "setFlowMode" /\ ret.outcome = "returned" /\ currentFlowMode \in flowRules)
        => /\ systemLevel = AggregateOfAll(currentFlowMode)
           /\ ret.assessment = assessSafetyLevel(AggregateOfAll(currentFlowMode))

\* C7: a call that fails leaves component levels, strategy and system level
\* exactly as they were before the call.
C7_FailedCallLeavesStateUnchanged ==
    [][ ret'.outcome # "returned"
        => (componentLevels' = componentLevels /\ currentFlowMode' = currentFlowMode) ]_vars

\* C8: an aggregation over an empty set of levels fails with
\* NoComponentsRegistered; it never yields a system level.
C8_EmptyAggregationFails ==
    ret.aggregated = 0 => ret.outcome = "NoComponentsRegistered"

\* C9: a write addressed to a component id that was never registered fails
\* as an unknown component, reported to the caller, and stores nothing.
C9_UnknownComponentFails ==
    (ret.op = "setComponentSafety" /\ ret.component \notin ConstructorKeys)
        => (ret.outcome = "false" /\ DOMAIN componentLevels = ConstructorKeys)

CallerComponents == {"quantum"}

CallerCalls ==
    { [op |-> "harmonizeAllComponents", component |-> "none", targetLevel |-> t] :
          t \in InputLevels }
    \cup { [op |-> "setComponentSafety", component |-> c, targetLevel |-> t] :
              c \in CallerComponents, t \in InputLevels }
    \cup { [op |-> "emergencyStabilization", component |-> "none",
            targetLevel |-> bridgingBaseline] }

ComponentKeys(cl) == SelectSeq(OwnKeys(cl), LAMBDA k : k # "system")

\* the statements a call has to run, named by the key each one writes
CallKeys(call, cl) ==
    CASE call.op = "harmonizeAllComponents" -> ComponentKeys(cl)
      [] call.op = "setComponentSafety"     -> <<call.component>>
      [] call.op = "emergencyStabilization" -> ComponentKeys(cl) \o <<"system">>

NewFrame(call) ==
    [pc |-> "running", op |-> call.op, component |-> call.component,
     targetLevel |-> call.targetLevel, keys |-> CallKeys(call, componentLevels),
     start |-> componentLevels]

\* a call entered although another call has not returned yet
BeginInterleaved(caller, call) ==
    /\ frames[caller].pc = "idle"
    /\ frames' = [frames EXCEPT ![caller] = NewFrame(call)]
    /\ UNCHANGED <<componentLevels, currentFlowMode, ret, calls, probe, classified>>
    /\ UNCHANGED subsystemVars

Begin(caller, call) ==
    /\ frames[caller].pc = "idle"
    /\ \A other \in Callers : frames[other].pc # "running"
    /\ frames' = [frames EXCEPT ![caller] = NewFrame(call)]
    /\ UNCHANGED <<componentLevels, currentFlowMode, ret, calls, probe, classified>>
    /\ UNCHANGED subsystemVars

Step(caller) ==
    LET f == frames[caller] IN
    /\ f.pc = "running"
    /\ f.keys # <<>>
    /\ componentLevels' =
           IF f.op = "emergencyStabilization"
           THEN IF Head(f.keys) = "system"
                THEN updateSystemSafety(componentLevels, currentFlowMode)
                ELSE [componentLevels EXCEPT ![Head(f.keys)] = bridgingBaseline]
           ELSE setComponentSafety(componentLevels, currentFlowMode, Head(f.keys),
                                   f.targetLevel).cl
    /\ frames' = [frames EXCEPT ![caller].keys = Tail(f.keys)]
    /\ UNCHANGED <<currentFlowMode, ret, calls, probe, classified>>
    /\ UNCHANGED subsystemVars

Return(caller) ==
    LET f == frames[caller] IN
    /\ f.pc = "running"
    /\ f.keys = <<>>
    /\ frames' = [frames EXCEPT ![caller].pc = "done"]
    /\ ret' = [op |-> f.op, component |-> f.component, outcome |-> "returned",
               assessment |-> IF f.op = "setComponentSafety"
                              THEN assessSafetyLevel(Clamp(f.targetLevel))
                              ELSE getSystemStatus(componentLevels),
               aggregated |-> 0 - 1]
    /\ calls' = calls + 1
    /\ UNCHANGED <<componentLevels, currentFlowMode, probe, classified>>
    /\ UNCHANGED subsystemVars

CallersNext ==
    \/ \E caller \in Callers, call \in CallerCalls : Begin(caller, call)
    \/ \E caller \in Callers : Step(caller)
    \/ \E caller \in Callers : Return(caller)

CallersSpec == Init /\ [][CallersNext]_vars

(***************************************************************************)
(* Claims about the threshold table, checked under ClassifySpec.           *)
(***************************************************************************)
SevenBuckets == { safetyThresholds[i].name : i \in 1..Len(safetyThresholds) }

\* the partition [0,0.05], (0.05,0.15], (0.15,0.25], (0.25,0.75],
\* (0.75,0.85], (0.85,0.95], (0.95,1]
PartitionBucket(level) ==
    IF level <= 50 * Milli THEN "CRITICAL_EMERGENCY"
    ELSE IF level <= 150 * Milli THEN "WARNING_LEVEL"
    ELSE IF level <= 250 * Milli THEN "CAUTION_RANGE"
    ELSE IF level <= 750 * Milli THEN "OPTIMAL_RANGE"
    ELSE IF level <= 850 * Milli THEN "UPPER_CAUTION"
    ELSE IF level <= 950 * Milli THEN "UPPER_WARNING"
    ELSE "CRITICAL_UPPER"

\* the buckets whose membership test level >= min && level <= max holds
MatchingBuckets(level) ==
    { i \in 1..Len(safetyThresholds) :
          Ge(level, safetyThresholds[i].min) /\ Le(level, safetyThresholds[i].max) }

\* the bounds two adjacent buckets share
SharedBounds ==
    { 50 * Milli, 150 * Milli, 250 * Milli, 750 * Milli, 850 * Milli, 950 * Milli }

Classified == classified # NoAssessment

\* C11: for every level in [0,1] the bucket returned is the first, in
\* ascending order, whose closed range holds the level, which is the bucket
\* of the partition [0,0.05], (0.05,0.15], (0.15,0.25], (0.25,0.75],
\* (0.75,0.85], (0.85,0.95], (0.95,1].
C11_ClassifyFollowsPartition ==
    (Classified /\ InUnitInterval(probe))
        => /\ classified.level = PartitionBucket(probe)
           /\ \E i \in MatchingBuckets(probe) :
                  /\ classified.level = safetyThresholds[i].name
                  /\ \A j \in MatchingBuckets(probe) : i <= j
           /\ classified.value = probe

\* 0.15, held by two ranges, was classified into the lower one
C11_Witness ==
    /\ probe = 150 * Milli
    /\ classified.level = "WARNING_LEVEL"

\* C12 as stated: 0.25 is classified optimal, 0.05 critical low, 0.95
\* critical high.
C12_BoundaryBucketsAsStated ==
    Classified
        => /\ (probe = 250 * Milli => classified.level = "OPTIMAL_RANGE")
           /\ (probe = 50 * Milli  => classified.level = "CRITICAL_EMERGENCY")
           /\ (probe = 950 * Milli => classified.level = "CRITICAL_UPPER")

\* C12 as amended: at a shared bound the lower bucket wins: 0.25 is
\* classified caution low, 0.05 critical low, 0.95 warning high.
C12_BoundaryBucketsLowerWins ==
    Classified
        => /\ (probe = 250 * Milli => classified.level = "CAUTION_RANGE")
           /\ (probe = 50 * Milli  => classified.level = "CRITICAL_EMERGENCY")
           /\ (probe = 950 * Milli => classified.level = "UPPER_WARNING")

\* 0.25 was classified
C12_Witness ==
    /\ probe = 250 * Milli
    /\ classified.level = "CAUTION_RANGE"

\* C13: every level in [0,1] is classified into one of the seven buckets,
\* never into the fallback.
C13_ClassifyTotalOnUnitInterval ==
    (Classified /\ InUnitInterval(probe)) => classified.level \in SevenBuckets

\* the top of the interval, 1.0, was classified
C13_Witness ==
    /\ probe = Scale
    /\ classified.level = "CRITICAL_UPPER"

\* C14 as stated: every level in [0,1] passes the membership test of exactly
\* one bucket.
C14_ExactlyOneBucketMatches ==
    (Classified /\ InUnitInterval(probe)) => Cardinality(MatchingBuckets(probe)) = 1

\* C14 as amended: every level in [0,1] passes the membership test of at
\* least one bucket (no gaps); it passes the test of two buckets, adjacent
\* ones, exactly at the six shared bounds 0.05, 0.15, 0.25, 0.75, 0.85, 0.95,
\* and of exactly one bucket everywhere else.
C14_BucketsOverlapOnlyAtSharedBounds ==
    (Classified /\ InUnitInterval(probe))
        => LET m == MatchingBuckets(probe) IN
           /\ m # {}
           /\ \A i, j \in m : i - j \in {0 - 1, 0, 1}
           /\ Cardinality(m) = (IF probe \in SharedBounds THEN 2 ELSE 1)

\* 0.05 was classified, and passes the tests of the first two buckets
C14_Witness ==
    /\ Classified
    /\ probe = 50 * Milli
    /\ MatchingBuckets(probe) = {1, 2}

(***************************************************************************)
(* Claims about the coordinator, continued (checked under Spec).           *)
(***************************************************************************)
\* the levels of all registered components of cl, in registration order
RegisteredLevelsOf(cl) ==
    LET keys == SelectSeq(OwnKeys(cl), LAMBDA k : k # "system")
    IN  [i \in 1..Len(keys) |-> cl[keys[i]]]

\* minimum, arithmetic mean, maximum of all registered levels of cl
AggregateOf(cl, mode) ==
    CASE mode = "conservative" -> MathMin(RegisteredLevelsOf(cl))
      [] mode = "balanced"     -> Div(ReduceSum(RegisteredLevelsOf(cl), 0),
                                      Len(RegisteredLevelsOf(cl)))
      [] mode = "performance"  -> MathMax(RegisteredLevelsOf(cl))

CriticalBuckets == {"CRITICAL_EMERGENCY", "CRITICAL_UPPER"}

\* C15 as stated: setComponentSafety on a registered component returns the
\* classification of the system level recomputed after the write.
C15_ReturnsSystemClassification ==
    (ret.op = "setComponentSafety" /\ ret.outcome = "returned" /\ ret.component # "system")
        => ret.assessment = assessSafetyLevel(systemLevel)

\* C15 as amended: setComponentSafety returns the classification of the
\* clamped level it stored in the component, taken before the system level
\* is recomputed.
C15_ReturnsComponentClassification ==
    (ret.op = "setComponentSafety" /\ ret.outcome = "returned" /\ ret.component # "system")
        => ret.assessment = assessSafetyLevel(componentLevels[ret.component])

\* setComponentSafety returned the bucket of the component (0.9) while the
\* recomputed system level is in another bucket
C15_Witness ==
    /\ ret.op = "setComponentSafety"
    /\ ret.outcome = "returned"
    /\ ret.component = "quantum"
    /\ ret.assessment.level = "UPPER_WARNING"
    /\ assessSafetyLevel(systemLevel).level = "OPTIMAL_RANGE"

C17_HarmonizeSetsAllAndSystem ==
    (ret.op = "harmonizeAllComponents")
        => \E targetLevel \in InputLevels :
               /\ \A k \in DOMAIN componentLevels \ {"system"} :
                      componentLevels[k] = Clamp(targetLevel)
               /\ systemLevel = Clamp(targetLevel)

\* C18: after every single write of harmonizeAllComponents the system level
\* is the aggregate, under the current strategy, of the component levels as
\* they stand at that step.
C18_HarmonizeConsistentAtEveryStep ==
    [][ \A targetLevel \in InputLevels :
          (HarmonizeAllComponents(targetLevel) /\ currentFlowMode \in flowRules)
            => LET trace == HarmonizeTrace(componentLevels, currentFlowMode,
                                           OwnKeys(componentLevels), targetLevel)
               IN  \A i \in 1..Len(trace) :
                       trace[i]["system"] = AggregateOf(trace[i], currentFlowMode) ]_vars

\* one level inside each of the seven buckets, in table order
BucketLevels ==
    << 30 * Milli, 100 * Milli, 200 * Milli, 500 * Milli, 800 * Milli, 900 * Milli, 970 * Milli >>

\* the ids setComponentSafety can address as components: the registered
\* ones and the inherited name, not the "system" entry
AddressableComponents == (ConstructorKeys \ {"system"}) \cup InheritedKeys

\* the component levels harmonizeAllComponents(targetLevel) leaves
Harmonized(cl, mode, targetLevel) ==
    HarmonizeLoop([cl |-> cl, outcome |-> "returned", assessment |-> NoAssessment,
                   aggregated |-> 0 - 1], mode, OwnKeys(cl), targetLevel).cl

BucketOf(cl) == assessSafetyLevel(cl["system"]).level

\* some call of setComponentSafety on a component, or of
\* harmonizeAllComponents, leaves the system level in one of the seven buckets
SomeCallReachesABucket ==
    \/ \E j \in 1..Len(BucketLevels) :
           BucketOf(Harmonized(componentLevels, currentFlowMode, BucketLevels[j]))
               \in SevenBuckets
    \/ \E c \in AddressableComponents, j \in 1..Len(BucketLevels) :
           BucketOf(setComponentSafety(componentLevels, currentFlowMode, c,
                                       BucketLevels[j]).cl) \in SevenBuckets

\* C19: there is no stuck state: in every reachable state a call of
\* setComponentSafety or harmonizeAllComponents can make one of the seven
\* buckets the system classification.
C19_NoStuckState == SomeCallReachesABucket

(***************************************************************************)
(* Claims about several callers, checked under CallersSpec.                *)
(***************************************************************************)
\* the component levels a call leaves when it runs alone from frame.start
EffectAlone(f) ==
    CASE f.op = "harmonizeAllComponents" ->
             Harmonized(f.start, currentFlowMode, f.targetLevel)
      [] f.op = "setComponentSafety" ->
             setComponentSafety(f.start, currentFlowMode, f.component, f.targetLevel).cl
      [] f.op = "emergencyStabilization" ->
             updateSystemSafety([k \in DOMAIN f.start |->
                                    IF k # "system" THEN bridgingBaseline ELSE f.start[k]],
                                currentFlowMode)

C21_StatusQueryIsReadOnly ==
    [][ ret'.op = "getSystemStatus"
        => /\ componentLevels' = componentLevels
           /\ currentFlowMode' = currentFlowMode ]_vars

\* the status was queried as the third call or later, after the flow mode
\* had been changed
C21_Witness ==
    /\ ret.op = "getSystemStatus"
    /\ calls >= 3
    /\ currentFlowMode # "conservative"

\* C22: a newly created coordinator has every component at the baseline
\* 0.618, the flow mode conservative and the system level 0.618.
C22_NewCoordinatorAtBaseline ==
    ret.op = "constructor"
        => /\ DOMAIN componentLevels = ConstructorKeys
           /\ \A k \in DOMAIN componentLevels : componentLevels[k] = 618 * Milli
           /\ currentFlowMode = "conservative"

C22_Witness == ret.op = "constructor" /\ calls = 0 /\ systemLevel = bridgingBaseline

\* the component levels emergencyStabilization leaves when called on cl
Stabilized(cl, mode) ==
    updateSystemSafety([k \in DOMAIN cl |->
                           IF k # "system" THEN bridgingBaseline ELSE cl[k]], mode)

\* C26: from every reachable state emergencyStabilization leaves exactly the
\* component levels and system level that harmonizeAllComponents(0.618)
\* leaves from that state.
C26_StabilizeEqualsHarmonizeBaseline ==
    Stabilized(componentLevels, currentFlowMode)
        = Harmonized(componentLevels, currentFlowMode, bridgingBaseline)

(***************************************************************************)
(* The TransactionProcessor                                                *)
(* (src/financial_systems/smart_contract_manager.js, lines 503-931).       *)
(*                                                                         *)
(* processTransaction and cancelTransaction have no await before their     *)
(* return, so each is one step.  startProcessing is a loop that is         *)
(* suspended in one of three timers: the delay of sendTransaction, the     *)
(* delay of one pass of monitorConfirmations, the retry delay of           *)
(* handleTransactionFailure.  A step of the loop runs from the firing of   *)
(* the timer it waits for to the next timer it starts, or to its end.      *)
(* The confirmation timeout compares clock readings; a timer may fire      *)
(* arbitrarily late, so after a delay the timeout may or may not have      *)
(* passed.  It has not passed at the first test, right after startTime     *)
(* was read.                                                               *)
(***************************************************************************)
ProcessorConfigs ==
    [testMode : BOOLEAN, requiredConfirmations : 1..MaxConfirmations,
     retryAttempts : 1..MaxRetryAttempts]

\* transactions handed to processTransaction; "" is a missing recipient
InputTransactions ==
    [to : {"0xRecipient", ""}, value : {1, 0 - 1}, network : {"testnet", "mainnet"}]

TransactionIds == 1..MaxTransactions

\* the errors validateTransaction collects; the transaction is valid when
\* there are none
validateTransaction(p, transaction) ==
    (IF transaction.to = "" THEN {"Missing recipient address"} ELSE {})
        \cup (IF transaction.value < 0 THEN {"Invalid transaction value"} ELSE {})
        \cup (IF ~p.config.testMode /\ transaction.network # "testnet"
              THEN {"Test mode disabled - mainnet transaction requires explicit confirmation"}
              ELSE {})

SetTx(p, txId, field, value) ==
    [p EXCEPT !.transactions[txId] = [@ EXCEPT ![field] = value]]

RemoveFromQueue(queue, txId) == SelectSeq(queue, LAMBDA q : q # txId)

\* the head of the while loop of startProcessing: take the next id and go as
\* far as the delay of sendTransaction, or leave the loop
LoopHead(p) ==
    IF Len(p.queue) > 0
    THEN [p |-> [p EXCEPT !.queue = Tail(p.queue)],
          loop |-> [pc |-> "sendTransaction", txId |-> Head(p.queue)]]
    ELSE [p |-> [p EXCEPT !.processing = FALSE], loop |-> NoLoop]

\* startProcessing without the test of the processing flag
startProcessingUnguarded(p, l) ==
    LoopHead([p EXCEPT !.processing = TRUE])

\* startProcessing, called without await from processTransaction
startProcessing(p, l) ==
    IF p.processing THEN [p |-> p, loop |-> l]
    ELSE LoopHead([p EXCEPT !.processing = TRUE])

\* the end of monitorConfirmations: lines 690-705
Confirm(p, txId) ==
    LET q == SetTx(p, txId, "status", "confirmed") IN
    [q EXCEPT !.confirmedTransactions = @ \cup {txId},
              !.pendingTransactions = @ \ {txId},
              !.metrics.totalProcessed = @ + 1,
              !.metrics.successful = @ + 1,
              !.metrics.pending = @ - 1]

\* handleTransactionFailure with a retry test that lets one attempt too many
handleTransactionFailureRetriesOnceMore(p, txId) ==
    LET tx == p.transactions[txId] IN
    IF tx.attempts <= p.config.retryAttempts
    THEN [p |-> SetTx(SetTx(p, txId, "attempts", tx.attempts + 1), txId, "status", "retrying"),
          loop |-> [pc |-> "retryDelay", txId |-> txId]]
    ELSE LoopHead([SetTx(p, txId, "status", "failed")
                      EXCEPT !.failedTransactions = @ \cup {txId},
                             !.pendingTransactions = @ \ {txId},
                             !.metrics.pending = @ - 1,
                             !.metrics.failed = @ + 1])

\* handleTransactionFailure: up to the retry delay, or to the permanent
\* failure and on to the head of the loop
handleTransactionFailure(p, txId) ==
    LET tx == p.transactions[txId] IN
    IF tx.attempts < p.config.retryAttempts
    THEN [p |-> SetTx(SetTx(p, txId, "attempts", tx.attempts + 1), txId, "status", "retrying"),
          loop |-> [pc |-> "retryDelay", txId |-> txId]]
    ELSE LoopHead([SetTx(p, txId, "status", "failed")
                      EXCEPT !.failedTransactions = @ \cup {txId},
                             !.pendingTransactions = @ \ {txId},
                             !.metrics.pending = @ - 1,
                             !.metrics.failed = @ + 1])

\* monitorConfirmations with a loop that stops one confirmation early
monitorConfirmationsOneShort(p, txId, elapsed, timedOut) ==
    IF p.transactions[txId].confirmations + 1 < p.config.requiredConfirmations
    THEN IF elapsed /\ timedOut
         THEN handleTransactionFailure(p, txId)
         ELSE [p |-> p, loop |-> [pc |-> "monitorConfirmations", txId |-> txId]]
    ELSE LoopHead(Confirm(p, txId))

\* the while loop of monitorConfirmations from its test; elapsed says
\* whether a delay has passed since startTime and timedOut whether the clock
\* is then beyond the timeout
monitorConfirmations(p, txId, elapsed, timedOut) ==
    IF p.transactions[txId].confirmations < p.config.requiredConfirmations
    THEN IF elapsed /\ timedOut
         THEN handleTransactionFailure(p, txId)
         ELSE [p |-> p, loop |-> [pc |-> "monitorConfirmations", txId |-> txId]]
    ELSE LoopHead(Confirm(p, txId))

ProcessorUnchanged ==
    UNCHANGED <<componentLevels, currentFlowMode, ret, calls, probe, classified, frames,
                limiterVars, chainVars, serviceVars>>

ProcessTransaction(transaction) ==
    /\ Len(processor.transactions) + processor.metrics.failed < MaxTransactions
    /\ IF validateTransaction(processor, transaction) # {}
       THEN /\ processor' = [processor EXCEPT !.metrics.failed = @ + 1]
            /\ UNCHANGED loop
       ELSE LET txId == Len(processor.transactions) + 1
                txRecord == [to |-> transaction.to, value |-> transaction.value,
                             network |-> transaction.network, status |-> "pending",
                             confirmations |-> 0, attempts |-> 1]
                stored == [processor EXCEPT !.transactions = Append(@, txRecord),
                                            !.pendingTransactions = @ \cup {txId},
                                            !.metrics.pending = @ + 1,
                                            !.queue = Append(@, txId)]
                started == startProcessing(stored, loop)
            IN  /\ processor' = started.p
                /\ loop' = started.loop
    /\ UNCHANGED cancelled
    /\ ProcessorUnchanged

\* the delay of sendTransaction is over: lines 654-657, then monitorConfirmations
SendDelayFires ==
    /\ loop.pc = "sendTransaction"
    /\ LET r == monitorConfirmations(SetTx(processor, loop.txId, "status", "sent"),
                                     loop.txId, FALSE, FALSE)
       IN  processor' = r.p /\ loop' = r.loop
    /\ UNCHANGED cancelled
    /\ ProcessorUnchanged

\* the delay of one pass of monitorConfirmations is over: lines 684-685, then
\* the test of the loop again
ConfirmationDelayFires(timedOut) ==
    /\ loop.pc = "monitorConfirmations"
    /\ LET tx == processor.transactions[loop.txId]
           r == monitorConfirmations(
                    SetTx(processor, loop.txId, "confirmations", tx.confirmations + 1),
                    loop.txId, TRUE, timedOut)
       IN  processor' = r.p /\ loop' = r.loop
    /\ UNCHANGED cancelled
    /\ ProcessorUnchanged

\* a retry delay after which the transaction is not put back on the queue
RetryDelayFiresDropsTransaction ==
    /\ loop.pc = "retryDelay"
    /\ LET r == LoopHead(processor)
       IN  processor' = r.p /\ loop' = r.loop
    /\ UNCHANGED cancelled
    /\ ProcessorUnchanged

\* the retry delay is over: line 733, then the head of the loop
RetryDelayFires ==
    /\ loop.pc = "retryDelay"
    /\ LET r == LoopHead([processor EXCEPT !.queue = Append(@, loop.txId)])
       IN  processor' = r.p /\ loop' = r.loop
    /\ UNCHANGED cancelled
    /\ ProcessorUnchanged

\* cancelTransaction for a pending id; for any other id it returns an error
\* and changes nothing
CancelTransaction(txId) ==
    /\ txId \in processor.pendingTransactions
    /\ processor' = [SetTx(processor, txId, "status", "cancelled")
                        EXCEPT !.pendingTransactions = @ \ {txId},
                               !.metrics.pending = @ - 1,
                               !.queue = RemoveFromQueue(@, txId)]
    /\ cancelled' = cancelled \cup {txId}
    /\ UNCHANGED loop
    /\ ProcessorUnchanged

LoopStep ==
    \/ SendDelayFires
    \/ \E timedOut \in BOOLEAN : ConfirmationDelayFires(timedOut)
    \/ RetryDelayFires

ProcessorInit ==
    /\ CoordinatorInit
    /\ probe = bridgingBaseline
    /\ classified = NoAssessment
    /\ \E config \in ProcessorConfigs : ProcessorAtRest(config)
    /\ LimiterAtRest([maxRequests |-> 0, windowMs |-> 0])
    /\ ChainAtRest(TRUE, TRUE)
    /\ ServicesAtRest

ProcessorNext ==
    \/ \E transaction \in InputTransactions : ProcessTransaction(transaction)
    \/ \E txId \in TransactionIds : CancelTransaction(txId)
    \/ LoopStep

ProcessorSpec == ProcessorInit /\ [][ProcessorNext]_vars

\* the configs out of test mode with the most confirmations and the most
\* attempts
LongestProcessorConfigs ==
    { config \in ProcessorConfigs :
          /\ ~config.testMode
          /\ config.requiredConfirmations = MaxConfirmations
          /\ config.retryAttempts = MaxRetryAttempts }

ProcessorLiveInit ==
    /\ ProcessorInit
    /\ processor.config \in LongestProcessorConfigs

\* timers fire: the loop is not suspended forever
ProcessorLiveSpec == ProcessorLiveInit /\ [][ProcessorNext]_vars /\ WF_vars(LoopStep)

(***************************************************************************)
(* The RateLimitHelper (src/security/input-validator.js, lines 293-334).   *)
(* The clock is Date.now() in units of one tick; it only moves forward.    *)
(* One caller passes the same options on every call.                       *)
(***************************************************************************)
LimiterOptions == [maxRequests : 1..MaxRequests, windowMs : 1..MaxWindowMs]

\* options.maxRequests || 100 and options.windowMs || 60000
maxRequestsOf(options) == IF options.maxRequests = 0 THEN 100 ELSE options.maxRequests

windowMsOf(options) == IF options.windowMs = 0 THEN 60000 ELSE options.windowMs

HasEntry(l, identifier) == l.requests[identifier] # NoEntry

\* the entry checkLimit works on before it counts the request: lines 306-312
requestData(l, identifier) ==
    LET found == IF HasEntry(l, identifier) THEN l.requests[identifier]
                 ELSE [count |-> 0, resetTime |-> l.now + windowMsOf(l.options)]
    IN  IF l.now >= found.resetTime
        THEN [count |-> 0, resetTime |-> l.now + windowMsOf(l.options)]
        ELSE found

\* checkLimit that tests the count before it has counted the request
checkLimitOffByOne(l, identifier) ==
    LET data == requestData(l, identifier)
        counted == [data EXCEPT !.count = @ + 1]
    IN  [l |-> [l EXCEPT !.requests[identifier] = counted],
         allowed |-> data.count <= maxRequestsOf(l.options),
         remaining |-> IF maxRequestsOf(l.options) - counted.count > 0
                       THEN maxRequestsOf(l.options) - counted.count ELSE 0,
         resetTime |-> counted.resetTime,
         count |-> counted.count]

checkLimit(l, identifier) ==
    LET data == requestData(l, identifier)
        counted == [data EXCEPT !.count = @ + 1]
    IN  [l |-> [l EXCEPT !.requests[identifier] = counted],
         allowed |-> counted.count <= maxRequestsOf(l.options),
         remaining |-> IF maxRequestsOf(l.options) - counted.count > 0
                       THEN maxRequestsOf(l.options) - counted.count ELSE 0,
         resetTime |-> counted.resetTime,
         count |-> counted.count]

LimiterUnchanged ==
    UNCHANGED <<componentLevels, currentFlowMode, ret, calls, probe, classified, frames,
                processorVars, chainVars, serviceVars>>

\* a call of checkLimit; an identifier is not asked more than twice beyond
\* its limit within a window.  The window of an identifier opens with its
\* first call after the previous window has ended and lasts windowMs.
CheckLimit(identifier) ==
    LET r == checkLimit(limiter, identifier)
        opens == limiter.now >= answered.windowEnd[identifier]
    IN
    /\ r.count <= maxRequestsOf(limiter.options) + 2
    /\ limiter' = r.l
    /\ answered' =
           [last |-> [identifier |-> identifier, allowed |-> r.allowed,
                      remaining |-> r.remaining, resetTime |-> r.resetTime,
                      count |-> r.count],
            windowEnd |-> [answered.windowEnd EXCEPT ![identifier] =
                              IF opens THEN limiter.now + windowMsOf(limiter.options) ELSE @],
            granted |-> [answered.granted EXCEPT ![identifier] =
                            (IF opens THEN 0 ELSE @) + (IF r.allowed THEN 1 ELSE 0)]]
    /\ LimiterUnchanged

\* cleanup: the entries whose window has expired are deleted
Cleanup ==
    /\ limiter' = [limiter EXCEPT !.requests =
                      [identifier \in Identifiers |->
                          IF HasEntry(limiter, identifier)
                             /\ limiter.now >= limiter.requests[identifier].resetTime
                          THEN NoEntry ELSE @[identifier]]]
    /\ limiter' # limiter
    /\ UNCHANGED answered
    /\ LimiterUnchanged

\* time passes
Tick ==
    /\ limiter.now < MaxTime
    /\ limiter' = [limiter EXCEPT !.now = @ + 1]
    /\ UNCHANGED answered
    /\ LimiterUnchanged

LimiterInit ==
    /\ CoordinatorInit
    /\ probe = bridgingBaseline
    /\ classified = NoAssessment
    /\ ProcessorAtRest(DefaultProcessorConfig)
    /\ \E options \in LimiterOptions : LimiterAtRest(options)
    /\ ChainAtRest(TRUE, TRUE)
    /\ ServicesAtRest

LimiterNext ==
    \/ \E identifier \in Identifiers : CheckLimit(identifier)
    \/ Cleanup
    \/ Tick

LimiterSpec == LimiterInit /\ [][LimiterNext]_vars

(***************************************************************************)
(* The BlockchainConnector (src/financial_systems/blockchain_connector.js) *)
(* and the SmartContractManager                                            *)
(* (src/financial_systems/smart_contract_manager.js, lines 23-420).        *)
(*                                                                         *)
(* sendTransaction, deployContract and callContractFunction each run to    *)
(* their simulated network delay in one step and finish in a second step   *)
(* when the timer fires; requests of several callers overlap.  Gas figures *)
(* and the interaction counter of a contract are left out.  A network of   *)
(* "undefined" is a request that names no network.                         *)
(***************************************************************************)
Networks == {"testnet", "mainnet", "undefined"}

ContractNames == {"SolidarityToken"}

\* the test mode guard with the sense it has in TransactionProcessor
testModeBlocksInverted(config, network) == ~config.testMode /\ network # "testnet"

\* this.config.testMode && network !== 'testnet'
testModeBlocks(config, network) == config.testMode /\ network # "testnet"

ChainUnchanged ==
    UNCHANGED <<componentLevels, currentFlowMode, ret, calls, probe, classified, frames,
                processorVars, limiterVars, serviceVars>>

RequestIds == 1..MaxCalls

\* the accepted request with this id that is waiting for its timer, if any
Waiting(id) == { f \in inflight : f.id = id }

Requested(op, network, outcome) ==
    request' = [op |-> op, network |-> network, outcome |-> outcome,
                made |-> request.made + 1]

Connect ==
    /\ ~connector.connected
    /\ connector' = [connector EXCEPT !.connected = TRUE]
    /\ UNCHANGED <<manager, inflight, request>>
    /\ ChainUnchanged

Disconnect ==
    /\ connector.connected
    /\ connector' = [connector EXCEPT !.connected = FALSE]
    /\ UNCHANGED <<manager, inflight, request>>
    /\ ChainUnchanged

\* sendTransaction up to the delay of simulateTransactionProcessing
SendTransaction(network) ==
    /\ request.made < MaxCalls
    /\ IF ~connector.connected \/ testModeBlocks(connector.config, network)
       THEN /\ Requested("sendTransaction", network, "rejected")
            /\ UNCHANGED <<connector, inflight>>
       ELSE LET txId == request.made + 1 IN
            /\ Requested("sendTransaction", network, "accepted")
            /\ connector' = [connector EXCEPT !.pendingTransactions =
                                @ \cup {[txId |-> txId, network |-> network]}]
            /\ inflight' = inflight \cup {[op |-> "sendTransaction", id |-> txId,
                                           name |-> "none", network |-> network]}
    /\ UNCHANGED manager
    /\ ChainUnchanged

\* a completion that leaves the transaction among the pending ones
SendTransactionCompletesKeepsPending(id) ==
    /\ Waiting(id) # {}
    /\ LET f == CHOOSE w \in Waiting(id) : TRUE IN
       /\ f.op = "sendTransaction"
       /\ connector' = [connector EXCEPT
              !.transactionHistory =
                  Append(@, [transactionId |-> f.id, network |-> f.network,
                             status |-> "confirmed"]),
              !.metrics.totalTransactions = @ + 1,
              !.metrics.successfulTransactions = @ + 1]
       /\ inflight' = inflight \ {f}
       /\ UNCHANGED <<manager, request>>
       /\ ChainUnchanged

\* the delay is over: lines 260-277 and 233-243
SendTransactionCompletes(id) ==
    /\ Waiting(id) # {}
    /\ LET f == CHOOSE w \in Waiting(id) : TRUE IN
       /\ f.op = "sendTransaction"
       /\ LET pendingTx == { tx \in connector.pendingTransactions : tx.txId = f.id } IN
          connector' = [connector EXCEPT
              !.transactionHistory =
                  IF pendingTx = {} THEN @
                  ELSE Append(@, [transactionId |-> f.id, network |-> f.network,
                                  status |-> "confirmed"]),
              !.pendingTransactions = @ \ pendingTx,
              !.metrics.totalTransactions = @ + 1,
              !.metrics.successfulTransactions = @ + 1]
       /\ inflight' = inflight \ {f}
       /\ UNCHANGED <<manager, request>>
       /\ ChainUnchanged

\* deployContract up to the delay of simulateDeployment
DeployContract(name, network) ==
    /\ request.made < MaxCalls
    /\ IF testModeBlocks(manager.config, network)
       THEN /\ Requested("deployContract", network, "rejected")
            /\ UNCHANGED inflight
       ELSE /\ Requested("deployContract", network, "accepted")
            /\ inflight' = inflight \cup {[op |-> "deployContract", id |-> request.made + 1,
                                           name |-> name, network |-> network]}
    /\ UNCHANGED <<connector, manager>>
    /\ ChainUnchanged

\* the delay is over: lines 104-120
DeployContractCompletes(id) ==
    /\ Waiting(id) # {}
    /\ LET f == CHOOSE w \in Waiting(id) : TRUE IN
       /\ f.op = "deployContract"
       /\ manager' = [manager EXCEPT
              !.contracts = @ \cup {f.name},
              !.deployments = Append(@, [name |-> f.name,
                                         network |-> IF f.network = "undefined" THEN "testnet"
                                                     ELSE f.network])]
       /\ inflight' = inflight \ {f}
       /\ UNCHANGED <<connector, request>>
       /\ ChainUnchanged

\* callContractFunction up to the delay of simulateFunctionCall
CallContractFunction(contractName, network) ==
    /\ request.made < MaxCalls
    /\ IF contractName \notin manager.contracts \/ testModeBlocks(manager.config, network)
       THEN /\ Requested("callContractFunction", network, "rejected")
            /\ UNCHANGED inflight
       ELSE /\ Requested("callContractFunction", network, "accepted")
            /\ inflight' = inflight \cup {[op |-> "callContractFunction",
                                           id |-> request.made + 1,
                                           name |-> contractName, network |-> network]}
    /\ UNCHANGED <<connector, manager>>
    /\ ChainUnchanged

\* the delay is over: lines 206-216
CallContractFunctionCompletes(id) ==
    /\ Waiting(id) # {}
    /\ LET f == CHOOSE w \in Waiting(id) : TRUE IN
       /\ f.op = "callContractFunction"
       /\ manager' = [manager EXCEPT
              !.interactions = Append(@, [contractName |-> f.name, success |-> TRUE])]
       /\ inflight' = inflight \ {f}
       /\ UNCHANGED <<connector, request>>
       /\ ChainUnchanged

ChainInit ==
    /\ CoordinatorInit
    /\ probe = bridgingBaseline
    /\ classified = NoAssessment
    /\ ProcessorAtRest(DefaultProcessorConfig)
    /\ LimiterAtRest([maxRequests |-> 0, windowMs |-> 0])
    /\ \E connectorTestMode \in BOOLEAN, managerTestMode \in BOOLEAN :
           ChainAtRest(connectorTestMode, managerTestMode)
    /\ ServicesAtRest

ChainNext ==
    \/ Connect
    \/ Disconnect
    \/ \E network \in Networks : SendTransaction(network)
    \/ \E name \in ContractNames, network \in Networks : DeployContract(name, network)
    \/ \E contractName \in ContractNames, network \in Networks :
           CallContractFunction(contractName, network)
    \/ \E id \in RequestIds : SendTransactionCompletes(id)
    \/ \E id \in RequestIds : DeployContractCompletes(id)
    \/ \E id \in RequestIds : CallContractFunctionCompletes(id)

ChainSpec == ChainInit /\ [][ChainNext]_vars

(***************************************************************************)
(* Claims about the TransactionProcessor, checked under ProcessorSpec and  *)
(* ProcessorLiveSpec.                                                      *)
(***************************************************************************)
Accepted == 1..Len(processor.transactions)

Tx(txId) == processor.transactions[txId]

TerminalStatuses == {"confirmed", "failed", "cancelled"}

\* C23: while test mode is enabled, no transaction whose network is not
\* 'testnet' is accepted into the queue of the processor.
C23_TestModeAcceptsOnlyTestnet ==
    processor.config.testMode => \A txId \in Accepted : Tx(txId).network = "testnet"

\* C27: metrics.pending is the number of entries of pendingTransactions and
\* is never negative, under every interleaving of processTransaction, the
\* processing loop, retries and cancelTransaction.
C27_PendingMetricCountsPending ==
    /\ processor.metrics.pending = Cardinality(processor.pendingTransactions)
    /\ processor.metrics.pending >= 0

\* C28: a transaction whose cancelTransaction has returned success keeps the
\* status 'cancelled' and is never in confirmedTransactions or
\* failedTransactions, whether it was queued, in flight or waiting for a
\* retry when it was cancelled.
C28_CancelledStaysCancelled ==
    \A txId \in cancelled :
        /\ Tx(txId).status = "cancelled"
        /\ txId \notin processor.confirmedTransactions
        /\ txId \notin processor.failedTransactions

\* C29: every accepted transaction eventually has a terminal status
\* (confirmed, failed or cancelled), and once no more transactions arrive the
\* queue is empty and the processing flag is false for good.
C29_EveryTransactionTerminates ==
    /\ \A txId \in TransactionIds :
           (txId \in Accepted) ~> (txId \in Accepted /\ Tx(txId).status \in TerminalStatuses)
    /\ <>[](processor.queue = <<>> /\ ~processor.processing)

\* the loop has ended after one transaction failed for good on its last
\* attempt and another was confirmed
C29_Witness ==
    /\ ~processor.processing
    /\ processor.queue = <<>>
    /\ \E txId \in Accepted : Tx(txId).status = "failed" /\ Tx(txId).attempts >= 2
    /\ \E txId \in Accepted : Tx(txId).status = "confirmed"

\* a step of the loop in which the transaction in flight fails
Failure(txId) ==
    /\ loop.pc = "monitorConfirmations"
    /\ loop.txId = txId
    /\ Tx(txId).confirmations' < processor.config.requiredConfirmations
    /\ loop' # loop

\* C30: the attempts counter of a transaction never exceeds retryAttempts; a
\* failure at attempts = retryAttempts marks the transaction 'failed' and
\* moves it to failedTransactions; a failed transaction stays failed and is
\* never on the queue or in flight again.
C30_AttemptsBoundedByRetryAttempts ==
    /\ [](\A txId \in Accepted : Tx(txId).attempts <= processor.config.retryAttempts)
    /\ [][ \A txId \in Accepted :
             (Failure(txId) /\ Tx(txId).attempts = processor.config.retryAttempts)
                 => /\ Tx(txId).status' = "failed"
                    /\ txId \in processor.failedTransactions'
                    /\ Tx(txId).attempts' = Tx(txId).attempts ]_vars
    /\ [][ \A txId \in Accepted :
             Tx(txId).status = "failed" => Tx(txId).status' = "failed" ]_vars
    /\ [](\A txId \in processor.failedTransactions :
             /\ Tx(txId).status = "failed"
             /\ \A i \in 1..Len(processor.queue) : processor.queue[i] # txId
             /\ loop.txId # txId)

\* a transaction has failed for good after its second attempt or a later one
C30_Witness ==
    \E txId \in processor.failedTransactions :
        /\ Tx(txId).attempts = processor.config.retryAttempts
        /\ Tx(txId).attempts >= 2

(***************************************************************************)
(* Claims about the RateLimitHelper, checked under LimiterSpec.            *)
(***************************************************************************)
\* C25: for each identifier, at most maxRequests calls of checkLimit within
\* one window are answered allowed = true; every further call for it in that
\* window is answered allowed = false with remaining 0; when the window has
\* expired the count restarts.
C25_AtMostMaxRequestsPerWindow ==
    /\ [](\A identifier \in Identifiers :
             answered.granted[identifier] <= maxRequestsOf(limiter.options))
    /\ [][ \A identifier \in Identifiers :
             (answered' # answered /\ answered'.last.identifier = identifier)
                 => IF limiter.now >= answered.windowEnd[identifier]
                    THEN answered'.last.allowed
                    ELSE IF answered.granted[identifier] < maxRequestsOf(limiter.options)
                         THEN answered'.last.allowed
                         ELSE ~answered'.last.allowed /\ answered'.last.remaining = 0
       ]_vars

\* an identifier has used up its second or a later window and is refused
C25_Witness ==
    \E identifier \in Identifiers :
        /\ answered.last.identifier = identifier
        /\ ~answered.last.allowed
        /\ answered.last.remaining = 0
        /\ answered.granted[identifier] = maxRequestsOf(limiter.options)
        /\ answered.windowEnd[identifier] > windowMsOf(limiter.options)

(***************************************************************************)
(* Claims about the BlockchainConnector and the SmartContractManager,      *)
(* checked under ChainSpec.                                                *)
(***************************************************************************)
TestModeOf(op) ==
    IF op = "sendTransaction" THEN connector.config.testMode ELSE manager.config.testMode

\* C24: while test mode is enabled, sendTransaction, deployContract and
\* callContractFunction reject every request whose network is not
\* 'testnet', and a rejected request adds nothing to pending transactions,
\* transaction history, deployments or interactions, then or later.
C24_TestModeRejectsOtherNetworks ==
    /\ [][ (request'.made = request.made + 1 /\ request'.network # "testnet"
            /\ TestModeOf(request'.op))
              => /\ request'.outcome = "rejected"
                 /\ connector'.pendingTransactions = connector.pendingTransactions
                 /\ connector'.transactionHistory = connector.transactionHistory
                 /\ manager'.deployments = manager.deployments
                 /\ manager'.interactions = manager.interactions
                 /\ inflight' = inflight ]_vars
    /\ [](\A f \in inflight : TestModeOf(f.op) => f.network = "testnet")
    /\ [](connector.config.testMode
             => /\ \A tx \in connector.pendingTransactions : tx.network = "testnet"
                /\ \A i \in 1..Len(connector.transactionHistory) :
                       connector.transactionHistory[i].network = "testnet")
    /\ [](manager.config.testMode
             => \A i \in 1..Len(manager.deployments) :
                    manager.deployments[i].network = "testnet")

\* in test mode a call on a deployed contract was rejected for its network
\* after a call on the test network had been recorded
C24_Witness ==
    /\ manager.config.testMode
    /\ request.op = "callContractFunction"
    /\ request.network = "mainnet"
    /\ request.outcome = "rejected"
    /\ manager.contracts # {}
    /\ Len(manager.deployments) = 1

(***************************************************************************)
(* Further claims about the TransactionProcessor (ProcessorSpec) and the   *)
(* BlockchainConnector (ChainSpec).                                        *)
(***************************************************************************)
\* C31: at most one processing loop is active however many
\* processTransaction calls overlap: the flag processing is set exactly
\* while the loop runs, a processTransaction that arrives while the loop
\* runs only appends to the queue and starts nothing, and no transaction
\* but the one the loop holds is being monitored.
C31_OneProcessingLoop ==
    /\ [](processor.processing <=> loop.pc # "idle")
    /\ [][ (Len(processor.transactions') > Len(processor.transactions) /\ loop.pc # "idle")
             => /\ loop' = loop
                /\ processor'.queue = Append(processor.queue, Len(processor.transactions')) ]_vars
    /\ [](\A txId \in Accepted :
             Tx(txId).status = "sent"
                 => loop.txId = txId /\ loop.pc = "monitorConfirmations")

\* two transactions arrived while the loop was monitoring an earlier one
C31_Witness ==
    /\ loop.pc = "monitorConfirmations"
    /\ Len(processor.queue) >= 1
    /\ Tx(loop.txId).status = "sent"

\* C32: a transaction has the status 'confirmed', and is in
\* confirmedTransactions and out of pendingTransactions, only when its
\* confirmations have reached requiredConfirmations.
C32_ConfirmedOnlyAfterRequiredConfirmations ==
    \A txId \in Accepted :
        (Tx(txId).status = "confirmed" \/ txId \in processor.confirmedTransactions)
            => /\ Tx(txId).confirmations >= processor.config.requiredConfirmations
               /\ Tx(txId).status = "confirmed"
               /\ txId \in processor.confirmedTransactions
               /\ txId \notin processor.pendingTransactions

\* a transaction was confirmed after two or more confirmations
C32_Witness ==
    \E txId \in processor.confirmedTransactions :
        /\ Tx(txId).status = "confirmed"
        /\ Tx(txId).confirmations = processor.config.requiredConfirmations
        /\ processor.config.requiredConfirmations >= 2

SendsInProgress == { f.id : f \in { w \in inflight : w.op = "sendTransaction" } }

HistoryIds ==
    { connector.transactionHistory[i].transactionId :
          i \in 1..Len(connector.transactionHistory) }

\* C37: a transaction whose sendTransaction call has completed is not in
\* pendingTransactions and is exactly once in transactionHistory, with
\* status 'confirmed'; pendingTransactions holds exactly the transactions
\* whose sendTransaction call is in progress.
C37_CompletedSendsAreInHistoryOnce ==
    /\ { tx.txId : tx \in connector.pendingTransactions } = SendsInProgress
    /\ Len(connector.transactionHistory) = connector.metrics.successfulTransactions
    /\ Cardinality(HistoryIds) = Len(connector.transactionHistory)
    /\ HistoryIds \cap SendsInProgress = {}
    /\ \A i \in 1..Len(connector.transactionHistory) :
           connector.transactionHistory[i].status = "confirmed"

\* two sends have completed while a third is in progress
C37_Witness ==
    /\ Len(connector.transactionHistory) = 2
    /\ Cardinality(connector.pendingTransactions) = 1

(***************************************************************************)
(* FinancialOptimizer (src/financial_systems/financial_optimizer.js).      *)
(* addToBatch, the timer of scheduleBatchProcessing and processBatch are   *)
(* asynchronous: a processBatch call is suspended in the delay of each     *)
(* processOperation, and addToBatch calls and timers run in between.       *)
(* Gas prices are in Gwei, one Gwei being Scale.                           *)
(***************************************************************************)
OptimizerUnchanged ==
    UNCHANGED <<coordinatorVars, processorVars, limiterVars, chainVars,
                aiSafetyVars, systemConfigVars, solidarityVars, sanitizer>>

OperationIds == 1..MaxOperations

\* processBatch up to its first await: the queue is taken over as the batch
processBatch(o, b) ==
    IF o.batchQueue = <<>>
    THEN [optimizer |-> o, batching |-> b]
    ELSE [optimizer |-> [o EXCEPT !.batchProcessing = TRUE, !.batchQueue = <<>>],
          batching |-> [b EXCEPT !.batches = @ \cup {[items |-> o.batchQueue, next |-> 1]}]]

\* what addToBatch does after the push when the batch size is not reached
scheduleBatchProcessing(o, b) ==
    IF ~o.batchProcessing THEN [b EXCEPT !.timers = @ + 1] ELSE b

AddToBatch(op) ==
    /\ op = observed.added + 1
    /\ IF ~optimizer.config.batchingEnabled
       THEN /\ batching' = [batching EXCEPT !.immediate = @ \cup {op}]
            /\ observed' = [observed EXCEPT !.added = op]
            /\ UNCHANGED optimizer
       ELSE LET o == [optimizer EXCEPT !.batchQueue = Append(@, op)] IN
            IF Len(o.batchQueue) >= o.batchSize
            THEN /\ optimizer' = processBatch(o, batching).optimizer
                 /\ batching' = processBatch(o, batching).batching
                 /\ observed' = [observed EXCEPT !.added = op]
            ELSE /\ optimizer' = o
                 /\ batching' = scheduleBatchProcessing(o, batching)
                 /\ observed' = [observed EXCEPT !.added = op, !.queued = @ \cup {op}]
    /\ UNCHANGED gas
    /\ OptimizerUnchanged

\* the callback of setTimeout in scheduleBatchProcessing
TimerFires ==
    /\ batching.timers > 0
    /\ LET b == [batching EXCEPT !.timers = @ - 1] IN
       /\ optimizer' = processBatch(optimizer, b).optimizer
       /\ batching' = processBatch(optimizer, b).batching
    /\ UNCHANGED <<observed, gas>>
    /\ OptimizerUnchanged

\* the delay of processOperation is over for the operation a batch is at:
\* the loop of processBatch goes on to the next one or finishes the batch
BatchOperationCompletes(op) ==
    /\ \E b \in batching.batches :
          /\ b.items[b.next] = op
          /\ IF b.next < Len(b.items)
             THEN /\ batching' = [batching EXCEPT
                         !.batches = (@ \ {b}) \cup {[b EXCEPT !.next = @ + 1]}]
                  /\ UNCHANGED optimizer
             ELSE /\ batching' = [batching EXCEPT !.batches = @ \ {b}]
                  /\ optimizer' = [optimizer EXCEPT
                         !.optimizations.batchedOperations = @ + Len(b.items),
                         !.batchProcessing = FALSE]
    /\ observed' = [observed EXCEPT !.processed = @ \cup {op}]
    /\ UNCHANGED gas
    /\ OptimizerUnchanged

\* the same for an operation processed at once, batching being disabled
ImmediateOperationCompletes(op) ==
    /\ op \in batching.immediate
    /\ batching' = [batching EXCEPT !.immediate = @ \ {op}]
    /\ observed' = [observed EXCEPT !.processed = @ \cup {op}]
    /\ UNCHANGED <<optimizer, gas>>
    /\ OptimizerUnchanged

OptimizerConfigs ==
    [batchingEnabled : BOOLEAN, gasOptimizationEnabled : {TRUE},
     maxGasPrice : {0}, batchSize : 0..MaxBatchSize]

OthersAtRestForOptimizer ==
    /\ CoordinatorInit
    /\ probe = bridgingBaseline
    /\ classified = NoAssessment
    /\ FinancialAtRest
    /\ AISafetyAtRest(0)
    /\ SystemConfigAtRest
    /\ SolidarityAtRest
    /\ sanitizer = NoSanitizing

OptimizerInit ==
    /\ OthersAtRestForOptimizer
    /\ \E config \in OptimizerConfigs : OptimizerAtRest(config)

OptimizerStep ==
    \/ TimerFires
    \/ \E op \in OperationIds : BatchOperationCompletes(op)
    \/ \E op \in OperationIds : ImmediateOperationCompletes(op)

OptimizerNext ==
    \/ \E op \in OperationIds : AddToBatch(op)
    \/ OptimizerStep

OptimizerSpec == OptimizerInit /\ [][OptimizerNext]_vars

\* timers fire and delays end; nobody is obliged to call addToBatch again
OptimizerLiveSpec == OptimizerInit /\ [][OptimizerNext]_vars /\ WF_vars(OptimizerStep)

(***************************************************************************)
(* optimizeGas, calculateOptimalGasPrice and recordGasPrice.               *)
(***************************************************************************)
\* a * (n / 1000) and a / (n / 1000)
MulMilli(a, n) == (a * n) \div 1000
DivMilli(a, n) == (a * 1000) \div n

maxHistorySize == 100

RECURSIVE InsertSorted(_, _)
InsertSorted(x, s) ==
    IF s = <<>> THEN <<x>>
    ELSE IF x <= Head(s) THEN <<x>> \o s
    ELSE <<Head(s)>> \o InsertSorted(x, Tail(s))

RECURSIVE SortPrices(_)
SortPrices(s) == IF s = <<>> THEN <<>> ELSE InsertSorted(Head(s), SortPrices(Tail(s)))

calculateAverageGasPrice(history) ==
    IF history = <<>> THEN 0 ELSE ReduceSum(history, 0) \div Len(history)

calculateMedianGasPrice(history) ==
    IF history = <<>> THEN 0
    ELSE LET sorted == SortPrices(history)
             mid == Len(sorted) \div 2
         IN  IF Len(sorted) % 2 = 0
             THEN (sorted[mid] + sorted[mid + 1]) \div 2
             ELSE sorted[mid + 1]

calculateOptimalGasPrice(o, currentGasPrice) ==
    IF Len(o.gasPriceHistory) > 0
    THEN LET targetPrice == MulMilli(calculateAverageGasPrice(o.gasPriceHistory), 618)
                            + MulMilli(calculateMedianGasPrice(o.gasPriceHistory), 382)
         IN  Min2(Min2(targetPrice, o.config.maxGasPrice), MulMilli(currentGasPrice, 1100))
    ELSE Max2(DivMilli(currentGasPrice, 1618), Scale)

GasPrices == { g * Scale : g \in 1..MaxGwei }

RecordGasPrice(gasPrice) ==
    /\ Len(optimizer.gasPriceHistory) < MaxHistory
    /\ LET pushed == Append(optimizer.gasPriceHistory, gasPrice) IN
       optimizer' = [optimizer EXCEPT !.gasPriceHistory =
                        IF Len(pushed) > maxHistorySize THEN Tail(pushed) ELSE pushed]
    /\ UNCHANGED <<batching, observed, gas>>
    /\ OptimizerUnchanged

\* optimizeGas for a transaction with a gasLimit and no estimatedGas: the
\* savings are positive exactly when the price went down
OptimizeGas(currentGasPrice) ==
    /\ gas.made < MaxCalls
    /\ IF ~optimizer.config.gasOptimizationEnabled
       THEN /\ gas' = [op |-> "optimizeGas", currentGasPrice |-> currentGasPrice,
                       optimized |-> FALSE, gasPrice |-> currentGasPrice,
                       made |-> gas.made + 1]
            /\ UNCHANGED optimizer
       ELSE LET optimalGasPrice == calculateOptimalGasPrice(optimizer, currentGasPrice) IN
            /\ gas' = [op |-> "optimizeGas", currentGasPrice |-> currentGasPrice,
                       optimized |-> TRUE, gasPrice |-> optimalGasPrice,
                       made |-> gas.made + 1]
            /\ optimizer' = [optimizer EXCEPT !.optimizations.optimizedTransactions =
                                IF currentGasPrice > optimalGasPrice THEN @ + 1 ELSE @]
    /\ UNCHANGED <<batching, observed>>
    /\ OptimizerUnchanged

GasConfigs ==
    [batchingEnabled : {TRUE}, gasOptimizationEnabled : BOOLEAN,
     maxGasPrice : {0} \cup GasPrices, batchSize : {0}]

GasInit ==
    /\ OthersAtRestForOptimizer
    /\ \E config \in GasConfigs : OptimizerAtRest(config)

GasNext ==
    \/ \E gasPrice \in GasPrices : RecordGasPrice(gasPrice)
    \/ \E currentGasPrice \in {0} \cup GasPrices : OptimizeGas(currentGasPrice)

GasSpec == GasInit /\ [][GasNext]_vars

(***************************************************************************)
(* Claims about the FinancialOptimizer.                                    *)
(***************************************************************************)
\* C33: every operation that addToBatch answered with queued: true is
\* eventually processed (OptimizerLiveSpec: timers fire and delays end).
C33_QueuedIsEventuallyProcessed ==
    \A op \in OperationIds : (op \in observed.queued) ~> (op \in observed.processed)

\* C34: the gas price optimizeGas returns when optimization is enabled
\* never exceeds config.maxGasPrice.
C34_GasPriceAtMostMaxGasPrice ==
    (gas.op = "optimizeGas" /\ gas.optimized)
        => Le(gas.gasPrice, optimizer.config.maxGasPrice)

(***************************************************************************)
(* AISafetyCoordinator (src/unnamed/part_003).  Its methods are            *)
(* synchronous; a call runs to completion.                                 *)
(***************************************************************************)
aiThresholds ==
    << [name |-> "CRITICAL_EMERGENCY", min |-> 0,           max |-> 50 * Milli,   riskLevel |-> "critical"],
       [name |-> "WARNING_LEVEL",      min |-> 50 * Milli,  max |-> 150 * Milli,  riskLevel |-> "high"],
       [name |-> "CAUTION_RANGE",      min |-> 150 * Milli, max |-> 250 * Milli,  riskLevel |-> "moderate"],
       [name |-> "OPTIMAL_RANGE",      min |-> 250 * Milli, max |-> 750 * Milli,  riskLevel |-> "low"],
       [name |-> "UPPER_CAUTION",      min |-> 750 * Milli, max |-> 850 * Milli,  riskLevel |-> "moderate"],
       [name |-> "UPPER_WARNING",      min |-> 850 * Milli, max |-> 950 * Milli,  riskLevel |-> "high"],
       [name |-> "CRITICAL_UPPER",     min |-> 950 * Milli, max |-> 1000 * Milli, riskLevel |-> "critical"] >>

\* the first band, in table order, whose closed range holds the level; 0 if none
RECURSIVE FirstAIThreshold(_, _)
FirstAIThreshold(level, i) ==
    IF i > Len(aiThresholds) THEN 0
    ELSE IF Ge(level, aiThresholds[i].min) /\ Le(level, aiThresholds[i].max) THEN i
    ELSE FirstAIThreshold(level, i + 1)

\* assessSafety: the fallback is WARNING_LEVEL
assessSafety(level) ==
    LET i == FirstAIThreshold(level, 1) IN
    IF i = 0
    THEN [level |-> "WARNING_LEVEL", riskLevel |-> aiThresholds[2].riskLevel,
          currentLevel |-> level]
    ELSE [level |-> aiThresholds[i].name, riskLevel |-> aiThresholds[i].riskLevel,
          currentLevel |-> level]

activateEmergencyProtocols(a) ==
    [a EXCEPT !.emergencyProtocolsActive = TRUE, !.systemMode = "emergency"]

deactivateEmergencyProtocols(a) ==
    [a EXCEPT !.emergencyProtocolsActive = FALSE, !.systemMode = "optimal"]

setSafetyLevel(a, newLevel) ==
    LET set == [a EXCEPT !.currentSafetyLevel = Max2(0, Min2(Scale, newLevel))]
        assessment == assessSafety(set.currentSafetyLevel)
    IN  IF assessment.riskLevel = "critical" /\ ~set.emergencyProtocolsActive
        THEN activateEmergencyProtocols(set)
        ELSE IF assessment.riskLevel # "critical" /\ set.emergencyProtocolsActive
        THEN deactivateEmergencyProtocols(set)
        ELSE set

aiEmergencyStabilization(a) ==
    setSafetyLevel([a EXCEPT !.emergencyProtocolsActive = TRUE], bridgingBaseline)

harmonizeWithQuantum(a, quantumCoherence) ==
    LET stored == [a EXCEPT !.quantumCoherence = quantumCoherence]
        targetLevel == Min2(a.currentSafetyLevel, quantumCoherence)
    IN  IF StrictNe(targetLevel, a.currentSafetyLevel)
        THEN setSafetyLevel(stored, targetLevel)
        ELSE stored

AISafetyUnchanged ==
    UNCHANGED <<coordinatorVars, processorVars, limiterVars, chainVars,
                optimizerVars, systemConfigVars, solidarityVars, sanitizer>>

AILevels ==
    { NaN, 0 - 500 * Milli, 0, 30 * Milli, 50 * Milli, 200 * Milli, bridgingBaseline,
      950 * Milli, 970 * Milli, Scale, 1500 * Milli }

SetSafetyLevel(newLevel) ==
    /\ aiCall.made < MaxCalls
    /\ aiSafety' = setSafetyLevel(aiSafety, newLevel)
    /\ aiCall' = [op |-> "setSafetyLevel", level |-> newLevel, made |-> aiCall.made + 1]
    /\ AISafetyUnchanged

AIEmergencyStabilization ==
    /\ aiCall.made < MaxCalls
    /\ aiSafety' = aiEmergencyStabilization(aiSafety)
    /\ aiCall' = [op |-> "emergencyStabilization", level |-> bridgingBaseline,
                  made |-> aiCall.made + 1]
    /\ AISafetyUnchanged

HarmonizeWithQuantum(quantumCoherence) ==
    /\ aiCall.made < MaxCalls
    /\ aiSafety' = harmonizeWithQuantum(aiSafety, quantumCoherence)
    /\ aiCall' = [op |-> "harmonizeWithQuantum", level |-> quantumCoherence,
                  made |-> aiCall.made + 1]
    /\ AISafetyUnchanged

\* config.initialSafetyLevel: missing (0), low critical, optimal, high critical
InitialSafetyLevels == { 0, 30 * Milli, 400 * Milli, 970 * Milli }

AISafetyInit ==
    /\ CoordinatorInit
    /\ probe = bridgingBaseline
    /\ classified = NoAssessment
    /\ FinancialAtRest
    /\ OptimizerAtRest(DefaultOptimizerConfig)
    /\ \E initialSafetyLevel \in InitialSafetyLevels : AISafetyAtRest(initialSafetyLevel)
    /\ SystemConfigAtRest
    /\ SolidarityAtRest
    /\ sanitizer = NoSanitizing

AISafetyNext ==
    \/ \E newLevel \in AILevels : SetSafetyLevel(newLevel)
    \/ AIEmergencyStabilization
    \/ \E quantumCoherence \in AILevels : HarmonizeWithQuantum(quantumCoherence)

AISafetySpec == AISafetyInit /\ [][AISafetyNext]_vars

(***************************************************************************)
(* Claims about the AISafetyCoordinator.                                   *)
(***************************************************************************)
\* C35: after every setSafetyLevel, harmonizeWithQuantum or
\* emergencyStabilization call, emergencyProtocolsActive is true exactly
\* when the band of the current safety level has risk level 'critical',
\* and systemMode is 'emergency' exactly when emergencyProtocolsActive is
\* true.
C35_EmergencyProtocolsIffCritical ==
    (aiCall.op # "none")
        => /\ aiSafety.emergencyProtocolsActive
                  <=> (assessSafety(aiSafety.currentSafetyLevel).riskLevel = "critical")
           /\ (aiSafety.systemMode = "emergency") <=> aiSafety.emergencyProtocolsActive

(***************************************************************************)
(* UnifiedSystemConfiguration (src/config/system_config.js): bridgeSafety, *)
(* harmonizeSafety, emergencyStabilization and validateConfig.  The        *)
(* methods are synchronous.                                                *)
(***************************************************************************)
\* bridgeSafety: the target level is written as it is given
bridgeSafety(cfg, targetLevel) ==
    [cfg EXCEPT !.safety.componentSafety = [c \in ConfigComponents |-> targetLevel],
                !.safety.globalSafetyLevel = targetLevel]

\* the components validateConfig reports an 'Invalid safety level' error for
validateConfig(cfg) ==
    { c \in ConfigComponents :
        LET level == cfg.safety.componentSafety[c] IN
        ~IsNaN(level) /\ (level < 0 \/ level > Scale) }

SystemConfigUnchanged ==
    UNCHANGED <<coordinatorVars, processorVars, limiterVars, chainVars,
                optimizerVars, aiSafetyVars, solidarityVars, sanitizer>>

ConfigLevels ==
    { NaN, 0 - 500 * Milli, 0, 300 * Milli, bridgingBaseline, Scale, 1500 * Milli, PosInf }

Bridged(op, targetLevel) ==
    [op |-> op, targetLevel |-> targetLevel,
     oldLevels |-> systemConfig.safety.componentSafety,
     valid |-> configCall.valid, errors |-> configCall.errors,
     made |-> configCall.made + 1]

BridgeSafety(targetLevel) ==
    /\ configCall.made < MaxCalls
    /\ systemConfig' = bridgeSafety(systemConfig, targetLevel)
    /\ configCall' = Bridged("bridgeSafety", targetLevel)
    /\ SystemConfigUnchanged

\* the legacy name
HarmonizeSafety(targetLevel) ==
    /\ configCall.made < MaxCalls
    /\ systemConfig' = bridgeSafety(systemConfig, targetLevel)
    /\ configCall' = Bridged("harmonizeSafety", targetLevel)
    /\ SystemConfigUnchanged

ConfigEmergencyStabilization ==
    /\ configCall.made < MaxCalls
    /\ systemConfig' = [bridgeSafety(systemConfig, bridgingBaseline)
                           EXCEPT !.safety.emergencyProtocols = TRUE]
    /\ configCall' = Bridged("emergencyStabilization", bridgingBaseline)
    /\ SystemConfigUnchanged

ValidateConfig ==
    /\ configCall.made < MaxCalls
    /\ configCall' = [configCall EXCEPT
           !.op = "validateConfig",
           !.errors = validateConfig(systemConfig),
           !.valid = (validateConfig(systemConfig) = {}),
           !.made = @ + 1]
    /\ UNCHANGED systemConfig
    /\ SystemConfigUnchanged

SystemConfigInit ==
    /\ CoordinatorInit
    /\ probe = bridgingBaseline
    /\ classified = NoAssessment
    /\ FinancialAtRest
    /\ OptimizerAtRest(DefaultOptimizerConfig)
    /\ AISafetyAtRest(0)
    /\ SystemConfigAtRest
    /\ SolidarityAtRest
    /\ sanitizer = NoSanitizing

SystemConfigNext ==
    \/ \E targetLevel \in ConfigLevels : BridgeSafety(targetLevel)
    \/ \E targetLevel \in ConfigLevels : HarmonizeSafety(targetLevel)
    \/ ConfigEmergencyStabilization
    \/ ValidateConfig

SystemConfigSpec == SystemConfigInit /\ [][SystemConfigNext]_vars

(***************************************************************************)
(* Claims about the UnifiedSystemConfiguration.                            *)
(***************************************************************************)
\* C36: after any sequence of bridgeSafety, harmonizeSafety and
\* emergencyStabilization calls every component safety level and
\* globalSafetyLevel are within [0,1], and validateConfig reports no
\* 'Invalid safety level' error.
C36_SafetyLevelsInUnitInterval ==
    /\ \A c \in ConfigComponents :
           /\ Ge(systemConfig.safety.componentSafety[c], 0)
           /\ Le(systemConfig.safety.componentSafety[c], Scale)
    /\ Ge(systemConfig.safety.globalSafetyLevel, 0)
    /\ Le(systemConfig.safety.globalSafetyLevel, Scale)
    /\ (configCall.op = "validateConfig") => configCall.valid

(***************************************************************************)
(* CorrectedSolidaritySystem (src/correctedSolidaritySystem.js): the       *)
(* quantum coherence safety of processBigAskQuestion.  The methods are     *)
(* synchronous.  emergencyMode is "undefined" until it is first assigned.  *)
(***************************************************************************)
\* this.quantumConfig.emergencyMode as a condition
InEmergencyMode(sys) == sys.quantumConfig.emergencyMode = "true"

activateEmergencyStabilization(sys) ==
    [sys EXCEPT !.status.quantum_coherence = bridgingBaseline,
                !.quantumConfig.emergencyMode = "true",
                !.quantumConfig.maxAllowedComplexity = 21]

\* baseCoherence * (1 - complexity / 100) * (baseRatio / (1 + baseRatio))
RawCoherence(sys, complexity) ==
    IF IsNaN(sys.status.quantum_coherence) THEN NaN
    ELSE MulMilli((sys.status.quantum_coherence * (100 - complexity)) \div 100, 618)

maintainQuantumCoherence(sys, complexity) ==
    LET rawCoherence == RawCoherence(sys, complexity)
        outcome ==
            IF Le(rawCoherence, 50 * Milli)
            THEN [final |-> 150 * Milli, status |-> "EMERGENCY_PROTECTION"]
            ELSE IF Le(rawCoherence, 150 * Milli)
            THEN [final |-> Max2(rawCoherence, 150 * Milli), status |-> "WARNING"]
            ELSE IF Le(rawCoherence, 250 * Milli)
            THEN [final |-> rawCoherence, status |-> "CAUTION"]
            ELSE IF Ge(rawCoherence, 950 * Milli)
            THEN [final |-> 750 * Milli, status |-> "UPPER_LIMIT_PROTECTION"]
            ELSE IF Ge(rawCoherence, 850 * Milli)
            THEN [final |-> rawCoherence, status |-> "UPPER_CAUTION"]
            ELSE [final |-> rawCoherence, status |-> "OPTIMAL"]
        protected == IF outcome.status = "EMERGENCY_PROTECTION"
                     THEN activateEmergencyStabilization(sys) ELSE sys
    IN  [protected EXCEPT !.coherenceSafetyStatus =
            [rawCoherence |-> rawCoherence, finalCoherence |-> outcome.final,
             safetyStatus |-> outcome.status]]

\* the limit applied whether or not the system is in emergency mode
maxSafeComplexityIgnoringEmergency(sys) == 49

\* maxSafeComplexity of processBigAskQuestion
maxSafeComplexity(sys) ==
    IF InEmergencyMode(sys)
    THEN (IF sys.quantumConfig.maxAllowedComplexity = 0 THEN 21
          ELSE sys.quantumConfig.maxAllowedComplexity)
    ELSE 49

\* the system after the call and the complexity that was processed
processBigAskQuestion(sys, complexity) ==
    LET processed == IF complexity > maxSafeComplexity(sys)
                     THEN maxSafeComplexity(sys) ELSE complexity
    IN  [sys |-> maintainQuantumCoherence(sys, processed), complexity |-> processed]

recoverFromEmergencyMode(sys) ==
    IF ~InEmergencyMode(sys)
    THEN [sys |-> sys, success |-> TRUE]
    ELSE IF ~IsNaN(sys.status.quantum_coherence) /\ sys.status.quantum_coherence < 350 * Milli
    THEN [sys |-> sys, success |-> FALSE]
    ELSE IF Ge(sys.status.quantum_coherence, 350 * Milli)
    THEN [sys |-> [sys EXCEPT !.quantumConfig.emergencyMode = "false",
                              !.quantumConfig.maxAllowedComplexity = 0],
          success |-> TRUE]
    ELSE [sys |-> [sys EXCEPT !.quantumConfig.emergencyMode = "true",
                              !.quantumConfig.maxAllowedComplexity = 21],
          success |-> FALSE]

testUpperCoherenceLimit(sys, testCoherence) ==
    LET originalCoherence == sys.status.quantum_coherence
        result == processBigAskQuestion(
                      [sys EXCEPT !.status.quantum_coherence = testCoherence], 7)
    IN  [sys |-> [result.sys EXCEPT !.status.quantum_coherence = originalCoherence],
         complexity |-> result.complexity]

SolidarityUnchanged ==
    UNCHANGED <<coordinatorVars, processorVars, limiterVars, chainVars,
                optimizerVars, aiSafetyVars, systemConfigVars, sanitizer>>

Complexities == { 0 - 100, 1, 7, 21, 22, 49, 50, 100 }

TestCoherences == { NaN, 10 * Milli, 80 * Milli, 300 * Milli, 990 * Milli }

Asked(op, requested, processed, success) ==
    [op |-> op, requested |-> requested, complexity |-> processed,
     wasEmergency |-> InEmergencyMode(solidarity), success |-> success,
     coherence |-> solidarity.status.quantum_coherence, made |-> asked.made + 1]

ProcessBigAskQuestion(complexity) ==
    /\ asked.made < MaxCalls
    /\ solidarity' = processBigAskQuestion(solidarity, complexity).sys
    /\ asked' = Asked("processBigAskQuestion", complexity,
                      processBigAskQuestion(solidarity, complexity).complexity, TRUE)
    /\ SolidarityUnchanged

ActivateEmergencyStabilization ==
    /\ asked.made < MaxCalls
    /\ solidarity' = activateEmergencyStabilization(solidarity)
    /\ asked' = Asked("activateEmergencyStabilization", 0, 0, TRUE)
    /\ SolidarityUnchanged

RecoverFromEmergencyMode ==
    /\ asked.made < MaxCalls
    /\ solidarity' = recoverFromEmergencyMode(solidarity).sys
    /\ asked' = Asked("recoverFromEmergencyMode", 0, 0,
                      recoverFromEmergencyMode(solidarity).success)
    /\ SolidarityUnchanged

TestUpperCoherenceLimit(testCoherence) ==
    /\ asked.made < MaxCalls
    /\ solidarity' = testUpperCoherenceLimit(solidarity, testCoherence).sys
    /\ asked' = Asked("testUpperCoherenceLimit", 7,
                      testUpperCoherenceLimit(solidarity, testCoherence).complexity, TRUE)
    /\ SolidarityUnchanged

SolidarityInit ==
    /\ CoordinatorInit
    /\ probe = bridgingBaseline
    /\ classified = NoAssessment
    /\ FinancialAtRest
    /\ OptimizerAtRest(DefaultOptimizerConfig)
    /\ AISafetyAtRest(0)
    /\ SystemConfigAtRest
    /\ SolidarityAtRest
    /\ sanitizer = NoSanitizing

SolidarityNext ==
    \/ \E complexity \in Complexities : ProcessBigAskQuestion(complexity)
    \/ ActivateEmergencyStabilization
    \/ RecoverFromEmergencyMode
    \/ \E testCoherence \in TestCoherences : TestUpperCoherenceLimit(testCoherence)

SolidaritySpec == SolidarityInit /\ [][SolidarityNext]_vars

ToNumber(input) ==
    IF input.type = "number" THEN input.value
    ELSE IF input.type = "null" THEN 0
    ELSE IF input.type = "undefined" THEN NaN
    ELSE IF input.text = "" THEN 0
    ELSE IF input.text = "150" THEN 150 * Scale
    ELSE IF input.text = "7.5" THEN 7 * Scale + Scale \div 2
    ELSE NaN

\* Number.isInteger and Math.floor
IsInteger(num) == ~IsNaN(num) /\ num # PosInf /\ num # NegInf /\ num % Scale = 0
Floor(num) == IF num = PosInf \/ num = NegInf THEN num ELSE (num \div Scale) * Scale

sanitizeNumber(input, options) ==
    LET num == ToNumber(input) IN
    IF IsNaN(num) THEN options.defaultValue
    ELSE IF options.hasMin /\ num < options.min THEN options.min
    ELSE IF options.hasMax /\ num > options.max THEN options.max
    ELSE IF options.integer /\ ~IsInteger(num) THEN Floor(num)
    ELSE num

SanitizerInputs ==
    { [type |-> "number", text |-> "", value |-> v] :
          v \in { NaN, PosInf, NegInf, 0 - 5 * Scale, 0, 700 * Milli,
                  7 * Scale + Scale \div 2, 50 * Scale, 150 * Scale } }
    \cup { [type |-> "string", text |-> t, value |-> 0] : t \in {"abc", "", "150", "7.5"} }
    \cup { [type |-> "null", text |-> "", value |-> 0],
           [type |-> "undefined", text |-> "", value |-> 0] }

SanitizerOptions ==
    { o \in [hasMin : BOOLEAN, min : {0, Scale \div 2, Scale},
             hasMax : BOOLEAN, max : {10 * Scale, 100 * Scale},
             integer : BOOLEAN, defaultValue : {0, 5 * Scale}] :
          /\ (~o.hasMin => o.min = 0)
          /\ (~o.hasMax => o.max = 10 * Scale) }

SanitizeNumber ==
    /\ ~sanitizer.called
    /\ sanitizer' = [sanitizer EXCEPT
           !.called = TRUE,
           !.result = sanitizeNumber(sanitizer.input, sanitizer.options)]
    /\ UNCHANGED <<coordinatorVars, processorVars, limiterVars, chainVars,
                   optimizerVars, aiSafetyVars, systemConfigVars, solidarityVars>>

SanitizerInit ==
    /\ CoordinatorInit
    /\ probe = bridgingBaseline
    /\ classified = NoAssessment
    /\ FinancialAtRest
    /\ OptimizerAtRest(DefaultOptimizerConfig)
    /\ AISafetyAtRest(0)
    /\ SystemConfigAtRest
    /\ SolidarityAtRest
    /\ \E input \in SanitizerInputs, options \in SanitizerOptions :
           sanitizer = [called |-> FALSE, input |-> input, options |-> options,
                        result |-> 0]

SanitizerNext == SanitizeNumber

SanitizerSpec == SanitizerInit /\ [][SanitizerNext]_vars

(***************************************************************************)
(* Claims about InputSanitizer.                                            *)
(***************************************************************************)
\* C39: sanitizeNumber(input, {min, max}), with or without the integer
\* option, returns a number within [min, max] for every input.
C39_SanitizedNumberWithinMinMax ==
    (/\ sanitizer.called
     /\ sanitizer.options.hasMin
     /\ sanitizer.options.hasMax
     /\ sanitizer.options.defaultValue = 0)
        => /\ Ge(sanitizer.result, sanitizer.options.min)
           /\ Le(sanitizer.result, sanitizer.options.max)

====
